---- MODULE Spec2Model ----
(***************************************************************************)
(* LEET: the coordinator (leet/api.py), the job state machine and the      *)
(* search request (leet/base.py) and the backend monitor thread            *)
(* (leet/base.py, leet/backends/cb.py).                                    *)
(*                                                                         *)
(* Threads of the program and the actions that model them:                 *)
(*   front-end      schedule_jobs                                          *)
(*   Thr-Leet       HandleSearchBackend, HandleSearchReady, HandleJobDone, *)
(*                  UnwindCall, UnwindWait                                 *)
(*   Thr-<backend>  MonitorGet .. MonitorNotify                            *)
(*   _sched_search  _expire_search                                         *)
(*   _sched_machine _is_machine_ready (also run inline by a worker)        *)
(*   pool workers   WorkerPickup .. HandleException                        *)
(***************************************************************************)
EXTENDS Integers, Sequences, FiniteSets, TLC

\* ------------------------------------------------------------------ bounds
\* jobs the coordinator creates in one run
MaxJobs == 2
\* worker pickups of one job after which the environment raises no further
\* retryable LeetSessionError for it
MaxAttempts == 2
\* LeetBackend.max_sessions, the size of each backend's worker pool
MaxSessions == 1

\* Sensor objects that one CB server holds
MaxSensors == 3
\* last_checkin_time takes the values 1..MaxTime
MaxTime == 2

\* directories below a root of the connected machine are at most MaxDepth
\* deep; the paths handed to a CBSession have up to MaxDepth + 1 components
MaxDepth == 2

\* ------------------------------------------------------------- environment
Backends == {"B1", "B2"}
Hosts == {"H1", "H2"}
\* the hostname lists the front-end submits
HostLists == {<<"H1", "H2">>}
\* messages a plugin puts in a LeetPluginError
PluginMessages == {"File size is bigger than the allowed."}
\* the rows a plugin returns on success
PluginRows == <<[status |-> "ok"]>>
\* the configured backends and the sensors each EDR instance knows
Deployments ==
  { [backends |-> {},           sensors |-> {}],
    [backends |-> {"B1"},       sensors |-> {}],
    [backends |-> {"B1"},       sensors |-> {<<"B1", "H1">>}],
    [backends |-> {"B1"},       sensors |-> {<<"B1", "H1">>, <<"B1", "H2">>}],
    [backends |-> {"B1", "B2"}, sensors |-> {<<"B1", "H1">>}],
    [backends |-> {"B1", "B2"}, sensors |-> {<<"B1", "H1">>, <<"B2", "H1">>}] }

\* ------------------------------------------------------- LeetJobStatus, FSM
LeetJobStatus == {"PENDING", "EXECUTING", "COMPLETED", "CANCELLED", "ERROR"}
Triggers == {"pending", "executing", "cancel", "completed", "error"}

\* mutant of Transitions: an Executing job cannot go back to Pending
Transitions_NoRetry ==
  { <<"PENDING",   "pending",   "PENDING">>,
    <<"PENDING",   "executing", "EXECUTING">>,
    <<"PENDING",   "cancel",    "CANCELLED">>,
    <<"EXECUTING", "cancel",    "CANCELLED">>,
    <<"EXECUTING", "completed", "COMPLETED">>,
    <<"CANCELLED", "completed", "COMPLETED">>,
    <<"CANCELLED", "executing", "CANCELLED">>,
    <<"EXECUTING", "error",     "ERROR">>,
    <<"PENDING",   "error",     "ERROR">> }

\* mutant of Transitions: Cancelled is final, a cancelled job cannot complete
Transitions_CancelledFinal ==
  { <<"PENDING",   "pending",   "PENDING">>,
    <<"PENDING",   "executing", "EXECUTING">>,
    <<"PENDING",   "cancel",    "CANCELLED">>,
    <<"EXECUTING", "pending",   "PENDING">>,
    <<"EXECUTING", "cancel",    "CANCELLED">>,
    <<"EXECUTING", "completed", "COMPLETED">>,
    <<"CANCELLED", "executing", "CANCELLED">>,
    <<"EXECUTING", "error",     "ERROR">>,
    <<"PENDING",   "error",     "ERROR">> }

\* LeetJob._conf_status_machine: the table t, as _process_transitions keys it
Transitions ==
  { <<"PENDING",   "pending",   "PENDING">>,
    <<"PENDING",   "executing", "EXECUTING">>,
    <<"PENDING",   "cancel",    "CANCELLED">>,
    <<"EXECUTING", "pending",   "PENDING">>,
    <<"EXECUTING", "cancel",    "CANCELLED">>,
    <<"EXECUTING", "completed", "COMPLETED">>,
    <<"CANCELLED", "completed", "COMPLETED">>,
    <<"CANCELLED", "executing", "CANCELLED">>,
    <<"EXECUTING", "error",     "ERROR">>,
    <<"PENDING",   "error",     "ERROR">> }

HasTransition(s, t) == \E e \in Transitions : e[1] = s /\ e[2] = t

TransitionDest(s, t) == (CHOOSE e \in Transitions : e[1] = s /\ e[2] = t)[3]

\* The class of the exception that `raise LeetError(...)` produces inside
\* leet/base.py.  The module imports uuid, enum, abc, threading, queue,
\* datetime and logging only; the name LeetError is bound nowhere in it, so
\* evaluating the raise statement fails with NameError.
RaisedOnInvalidTransition == "NameError"

\* _JobFSM.next(condition): the new state and the exception that leaves the
\* call ("none" when it returns)
FsmNext(s, t) ==
  IF HasTransition(s, t)
    THEN [state |-> TransitionDest(s, t), raised |-> "none"]
    ELSE [state |-> s, raised |-> RaisedOnInvalidTransition]

\* -------------------------------------------------------------------- state
VARIABLES
  deployment,        \* the backends given to Leet() and the sensors they know
  leet_state,        \* Thr-Leet: "running", "unwinding" (leaving run()'s ExitStack), "dead"
  exit_stack,        \* the ExitStack of Leet.run: <<kind, backend>> entries
  unwind_wait,       \* Thr-Leet is blocked inside the top entry's __exit__
  queue,             \* Leet._queue
  job_list,          \* Leet._job_list
  job_notification,  \* the out-queue: every job put on it, in order
  jobs,              \* the LeetJob objects created so far, and their activity
  requests,          \* the LeetSearchRequest objects created so far
  backend_queue,     \* LeetBackend._queue, per backend
  monitor,           \* LeetBackend._monitor_queue thread, per backend
  pool_queue,        \* work queue of each backend's ThreadPoolExecutor
  pool_shutdown,     \* the executor of the backend has been shut down
  fsm_call           \* the last call made from outside the coordinator's threads:
                     \* a trigger of a LeetJob, or a cancel operation of Leet

\* the Carbon Black side: the servers, the backend of leet/backends/cb.py and
\* the multi-instance backend of leet/cb.py
VARIABLES
  sensors,                \* the Sensor objects of each CB server, in the order its queries return them
  cb_search,              \* the last call of Backend._search_machines and the machine_list it returned
  enable_solve_conflict,  \* leet/cb.py: Backend.enable_solve_conflict
  tasks,                  \* leet/cb.py: the LeetJob objects handed to Backend.add_tasks
  _sched,                 \* leet/cb.py: the _CBTask objects given to Backend._sched.add_job
  _jobs                   \* leet/cb.py: Backend._jobs, leet_job.id -> _CBTask

cb_vars == <<sensors, cb_search, enable_solve_conflict, tasks, _sched, _jobs>>

\* the two schedulers of Leet, one _JobFSM whose triggers are called from two
\* threads at once, and one CBSession of leet/backends/cb.py with the file
\* system of the machine it is connected to
VARIABLES
  schedulers,    \* the state of Leet._sched_machine and of Leet._sched_search
  job_fsm,       \* a _JobFSM: current_state, _t_lock, and the status it had before the calls
  callers,       \* the position of each thread inside _JobFSM.next
  remote_fs,     \* the machine's disk: the paths that exist, each as the list of its
                 \* segments, with the attributes and the size of each
  raw_calls,     \* the commands the CBSession has issued on its raw session, in order
  session_call,  \* the last operation called on the CBSession, and how it ended
  plugin_call    \* the last run() of a plugin on the CBSession, and how it ended

lock_vars == <<job_fsm, callers>>

session_vars == <<remote_fs, raw_calls, session_call, plugin_call>>

vars == <<cb_vars, lock_vars, session_vars, schedulers, deployment, leet_state, exit_stack, unwind_wait, queue, job_list,
          job_notification, jobs, requests, backend_queue, monitor,
          pool_queue, pool_shutdown, fsm_call>>

NoExc == [kind |-> "none", stop |-> FALSE, msg |-> ""]

\* LeetJob.plugin_result = None
NoResult == <<>>

NoCall == [job |-> 0, trigger |-> "none", before |-> "none", after |-> "none", raised |-> "none"]

\* positions of a job inside a pool worker (_execute_plugin and its future)
WorkerActs == {"connect", "connected", "running", "ran", "exit", "handler", "reprobe"}

JobIds == DOMAIN jobs

\* ------------------------------------------------------------------ helpers
\* the order in which the front-end passes the backends to Leet()
BackendOrder == <<"B1", "B2">>

\* the backends in the order of Leet._backend_list (a dict, insertion order)
SeqOfSet(S) == SelectSeq(BackendOrder, LAMBDA b : b \in S)

RECURSIVE StackOf(_)
\* Leet._start_threads: stack.enter_context(pool); stack.enter_context(backend)
StackOf(bs) ==
  IF bs = <<>> THEN <<>>
  ELSE <<<<"pool", Head(bs)>>, <<"backend", Head(bs)>>>> \o StackOf(Tail(bs))

\* list.remove(x): drops the first element equal to x
RECURSIVE ListRemove(_, _)
ListRemove(l, x) ==
  IF l = <<>> THEN <<>>
  ELSE IF Head(l) = x THEN Tail(l) ELSE <<Head(l)>> \o ListRemove(Tail(l), x)

InList(l, x) == \E i \in DOMAIN l : l[i] = x

\* LeetJob.__init__: a new job for a machine, status PENDING
LeetJob(machine) ==
  [host |-> machine.host, backend |-> machine.backend, status |-> "PENDING",
   plugin_result |-> NoResult, act |-> "none", exc |-> NoExc,
   attempts |-> 0, session |-> "none", closes |-> 0, posted |-> 0]

\* LeetSearchRequest.__init__
LeetSearchRequest(hostnames) ==
  [hostnames |-> hostnames, ready |-> FALSE, backend_quantity |-> 0,
   completed_backends |-> {}, found_machines |-> <<>>, end_time |-> "None",
   change_lock |-> "free", expiry |-> "none"]

\* mutant of Put: the message is put at the front of the queue
Put_AtFront(q, code, value) == <<[code |-> code, value |-> value]>> \o q

\* Leet.notify_search_completed / the queue.put of a control message
Put(q, code, value) == Append(q, [code |-> code, value |-> value])

\* the pool workers of backend b that are running a work item
BusyWorkers(b) == {j \in JobIds : jobs[j].backend = b /\ jobs[j].act \in WorkerActs}

\* the sessions of backend b that are open
OpenSessions(b) == {j \in JobIds : jobs[j].backend = b /\ jobs[j].session = "open"}

\* ---------------------------------------------------------------------- Init
\* Leet._start_threads: _sched_machine.start(); _sched_search.start()
SchedulersRunning == [machine |-> "running", search |-> "running"]

\* Leet._stop_schedulers: each scheduler that is not stopped is shut down
SchedulersStopped == [machine |-> "stopped", search |-> "stopped"]

\* the threads that call the triggers of one LeetJob
Threads == {"front-end", "worker"}

\* a thread that is not inside _JobFSM.next
NotCalling == [pc |-> "idle", condition |-> "none", read |-> "none", raised |-> "none"]

\* _JobFSM.__init__(transitions_table, initial): current_state = initial and
\* a new RLock; entry keeps the status the machine had before the calls
JobFSM(initial) == [entry |-> initial, current_state |-> initial, _t_lock |-> "free"]

\* Leet(backend_list, job_notification) constructed and started: the
\* schedulers run, every backend has its pool and its monitor thread.
InitCoordinator ==
  /\ deployment \in Deployments
  /\ schedulers = SchedulersRunning
  /\ leet_state = "running"
  /\ exit_stack = StackOf(SeqOfSet(deployment.backends))
  /\ unwind_wait = FALSE
  /\ queue = <<>>
  /\ job_list = <<>>
  /\ job_notification = <<>>
  /\ requests = <<>>
  /\ backend_queue = [b \in Backends |-> <<>>]
  /\ monitor = [b \in Backends |-> [pc |-> "idle", request |-> 0, machines |-> <<>>]]
  /\ pool_queue = [b \in Backends |-> <<>>]
  /\ pool_shutdown = [b \in Backends |-> FALSE]
  /\ fsm_call = NoCall

\* the coordinator started, and no thread inside a trigger call
InitCommon ==
  /\ InitCoordinator
  /\ job_fsm = JobFSM("PENDING")
  /\ callers = [c \in Threads |-> NotCalling]

\* no operation has been called on a CBSession
NoSessionCall ==
  [op |-> "none", path |-> <<>>, flag |-> FALSE, client |-> "none", raised |-> "none",
   before |-> <<>>]

\* no plugin has been run
NoPluginCall ==
  [plugin |-> "none", source |-> <<>>, dest_exists |-> FALSE, data |-> <<>>,
   raised |-> "none", msg |-> ""]

\* no search has been handed to a CB backend
NoSearch == [backend |-> "none", hostnames |-> <<>>, machine_list |-> <<>>]

\* the Carbon Black side at rest: servers without sensors, nothing searched,
\* a leet/cb.py Backend as its __init__ leaves it
InitCBServers ==
  /\ sensors = [b \in Backends |-> <<>>]
  /\ cb_search = NoSearch
  /\ enable_solve_conflict = FALSE
  /\ tasks = <<>>
  /\ _sched = <<>>
  /\ _jobs = <<>>

\* no CBSession in use
InitNoSession ==
  /\ remote_fs = <<>>
  /\ raw_calls = <<>>
  /\ session_call = NoSessionCall
  /\ plugin_call = NoPluginCall

InitCB ==
  /\ InitCBServers
  /\ InitNoSession

Init ==
  /\ InitCommon
  /\ InitCB
  /\ jobs = <<>>

\* ------------------------------------------------------------- front-end
\* Leet.schedule_jobs(plugin, hostnames); one submission per run
schedule_jobs(hostnames) ==
  /\ requests = <<>>
  /\ requests' = <<LeetSearchRequest(hostnames)>>
  /\ queue' = Put(queue, "SEARCH_BACKEND", 1)
  /\ UNCHANGED <<cb_vars, lock_vars, session_vars, schedulers, deployment, leet_state, exit_stack, unwind_wait, job_list,
                 job_notification, jobs, backend_queue, monitor, pool_queue,
                 pool_shutdown, fsm_call>>

\* Leet.shutdown(), called once: _stop_schedulers(), then the STOP message
shutdown ==
  /\ schedulers = SchedulersRunning
  /\ schedulers' = SchedulersStopped
  /\ queue' = Put(queue, "STOP", 0)
  /\ UNCHANGED <<cb_vars, lock_vars, session_vars, deployment, leet_state, exit_stack,
                 unwind_wait, job_list, job_notification, jobs, requests, backend_queue,
                 monitor, pool_queue, pool_shutdown, fsm_call>>

\* ------------------------------------------------------ Thr-Leet: Leet.run
\* an exception leaves the main loop of Leet.run: the thread leaves the
\* `with ExitStack()` block and then ends
Crashed == IF exit_stack = <<>> THEN "dead" ELSE "unwinding"

\* code == SEARCH_BACKEND
HandleSearchBackend ==
  /\ leet_state = "running"
  /\ queue # <<>>
  /\ Head(queue).code = "SEARCH_BACKEND"
  /\ LET r == Head(queue).value IN
       /\ requests' = [requests EXCEPT ![r].backend_quantity = Cardinality(deployment.backends),
                                       ![r].expiry = "armed"]
       /\ backend_queue' = [b \in Backends |->
                              IF b \in deployment.backends
                                THEN Append(backend_queue[b], [code |-> "SEARCH", value |-> r])
                                ELSE backend_queue[b]]
  /\ queue' = Tail(queue)
  /\ UNCHANGED <<cb_vars, lock_vars, session_vars, schedulers, deployment, leet_state, exit_stack, unwind_wait, job_list,
                 job_notification, jobs, monitor, pool_queue, pool_shutdown, fsm_call>>

\* the jobs _search_ready makes of the found machines; each is handed to
\* _add_job, which arms an immediate online probe for it
NewJobs(machines) ==
  [i \in 1..Len(machines) |-> [LeetJob(machines[i]) EXCEPT !.act = "probe_now"]]

\* code == SEARCH_READY: Leet._search_ready and Leet._add_job.  The debug
\* call evaluates end_time - start_time first: with end_time None that is a
\* TypeError, which nothing in run() catches.  The message is handled only
\* while the jobs it creates fit within MaxJobs.
HandleSearchReady ==
  /\ leet_state = "running"
  /\ queue # <<>>
  /\ Head(queue).code = "SEARCH_READY"
  /\ LET r == Head(queue).value IN
       IF requests[r].end_time = "None"
         THEN /\ leet_state' = Crashed
              /\ UNCHANGED <<jobs, job_list>>
         ELSE /\ Len(jobs) + Len(requests[r].found_machines) <= MaxJobs
              /\ jobs' = jobs \o NewJobs(requests[r].found_machines)
              /\ job_list' = job_list \o
                    [i \in 1..Len(requests[r].found_machines) |-> Len(jobs) + i]
              /\ UNCHANGED leet_state
  /\ queue' = Tail(queue)
  /\ UNCHANGED <<cb_vars, lock_vars, session_vars, schedulers, deployment, exit_stack, unwind_wait, job_notification, requests,
                 backend_queue, monitor, pool_queue, pool_shutdown, fsm_call>>

\* mutant of RemoveJob: the job is left in the list
RemoveJob_Keep(l, j) == [list |-> l, raised |-> "none"]

\* Leet._remove_job: list.remove raises ValueError for a job not in the list
RemoveJob(l, j) == IF InList(l, j) THEN [list |-> ListRemove(l, j), raised |-> "none"]
                                   ELSE [list |-> l, raised |-> "ValueError"]

\* code == JOB_DONE: _remove_job(value); _job_notification.put(value)
HandleJobDone ==
  /\ leet_state = "running"
  /\ queue # <<>>
  /\ Head(queue).code = "JOB_DONE"
  /\ LET j == Head(queue).value
         rm == RemoveJob(job_list, j) IN
       IF rm.raised # "none"
         THEN /\ leet_state' = Crashed
              /\ UNCHANGED <<job_list, job_notification>>
         ELSE /\ job_list' = rm.list
              /\ job_notification' = Append(job_notification, j)
              /\ UNCHANGED leet_state
  /\ queue' = Tail(queue)
  /\ UNCHANGED <<cb_vars, lock_vars, session_vars, schedulers, deployment, exit_stack, unwind_wait, jobs, requests,
                 backend_queue, monitor, pool_queue, pool_shutdown, fsm_call>>

\* code == STOP: break.  The thread leaves the `with ExitStack()` block as it
\* does for an exception, and then ends
HandleStop ==
  /\ leet_state = "running"
  /\ queue # <<>>
  /\ Head(queue).code = "STOP"
  /\ leet_state' = Crashed
  /\ queue' = Tail(queue)
  /\ UNCHANGED <<cb_vars, lock_vars, session_vars, schedulers, deployment, exit_stack,
                 unwind_wait, job_list, job_notification, jobs, requests, backend_queue,
                 monitor, pool_queue, pool_shutdown, fsm_call>>

\* ExitStack.__exit__: the entries are left in reverse order.  Entering the
\* exit of a backend is LeetBackend.shutdown (put STOP, then join); of a
\* pool, ThreadPoolExecutor.shutdown(wait=True).
UnwindCall ==
  /\ leet_state = "unwinding"
  /\ ~unwind_wait
  /\ LET top == exit_stack[Len(exit_stack)] IN
       IF top[1] = "backend"
         THEN /\ backend_queue' = [backend_queue EXCEPT ![top[2]] =
                                     Append(@, [code |-> "STOP", value |-> 0])]
              /\ UNCHANGED pool_shutdown
         ELSE /\ pool_shutdown' = [pool_shutdown EXCEPT ![top[2]] = TRUE]
              /\ UNCHANGED backend_queue
  /\ unwind_wait' = TRUE
  /\ UNCHANGED <<cb_vars, lock_vars, session_vars, schedulers, deployment, leet_state, exit_stack, queue, job_list,
                 job_notification, jobs, requests, monitor, pool_queue, fsm_call>>

\* the join of the monitor thread, or of the pool's workers, returns
UnwindWait ==
  /\ leet_state = "unwinding"
  /\ unwind_wait
  /\ LET top == exit_stack[Len(exit_stack)] IN
       IF top[1] = "backend"
         THEN monitor[top[2]].pc = "stopped"
         ELSE pool_queue[top[2]] = <<>> /\ BusyWorkers(top[2]) = {}
  /\ exit_stack' = SubSeq(exit_stack, 1, Len(exit_stack) - 1)
  /\ unwind_wait' = FALSE
  /\ leet_state' = IF Len(exit_stack) = 1 THEN "dead" ELSE "unwinding"
  /\ UNCHANGED <<cb_vars, lock_vars, session_vars, schedulers, deployment, queue, job_list, job_notification, jobs, requests,
                 backend_queue, monitor, pool_queue, pool_shutdown, fsm_call>>

\* --------------------------------------- Thr-<backend>: _monitor_queue loop
\* Backend._search_machines: one CBMachine per hostname that _get_sensor
\* resolves in this backend, in the order of search_request.hostnames
SearchMachines(b, hostnames) ==
  LET hit == SelectSeq(hostnames, LAMBDA h : <<b, h>> \in deployment.sensors)
  IN [i \in 1..Len(hit) |-> [host |-> hit[i], backend |-> b]]

MonitorUnchanged == <<cb_vars, lock_vars, session_vars, schedulers, deployment, leet_state, exit_stack, unwind_wait, job_list,
                      job_notification, jobs, pool_queue, pool_shutdown, fsm_call>>

\* self._queue.get(): STOP ends the thread; SEARCH runs _search_machines and
\* enters add_found_machines, which reads `ready` outside the lock
MonitorGet(b) ==
  /\ b \in deployment.backends
  /\ monitor[b].pc = "idle"
  /\ backend_queue[b] # <<>>
  /\ backend_queue' = [backend_queue EXCEPT ![b] = Tail(@)]
  /\ LET m == Head(backend_queue[b]) IN
       IF m.code = "STOP"
         THEN monitor' = [monitor EXCEPT ![b].pc = "stopped"]
         ELSE monitor' = [monitor EXCEPT ![b] =
                [pc |-> IF requests[m.value].ready THEN "add_completed" ELSE "append",
                 request |-> m.value,
                 machines |-> SearchMachines(b, requests[m.value].hostnames)]]
  /\ UNCHANGED <<queue, requests>>
  /\ UNCHANGED MonitorUnchanged

\* add_found_machines, after `if not self.ready`: the append under _machine_lock
MonitorAppend(b) ==
  /\ monitor[b].pc = "append"
  /\ requests' = [requests EXCEPT ![monitor[b].request].found_machines = @ \o monitor[b].machines]
  /\ monitor' = [monitor EXCEPT ![b].pc = "add_completed"]
  /\ UNCHANGED <<queue, backend_queue>>
  /\ UNCHANGED MonitorUnchanged

\* add_completed_backend: `if not self.ready`, read outside the lock
MonitorAddCompleted(b) ==
  /\ monitor[b].pc = "add_completed"
  /\ monitor' = [monitor EXCEPT ![b].pc =
                   IF requests[monitor[b].request].ready THEN "notify" ELSE "register"]
  /\ UNCHANGED <<queue, backend_queue, requests>>
  /\ UNCHANGED MonitorUnchanged

\* mutant of AddCompletedBackend: ready is recomputed from the count each time
AddCompletedBackend_Recompute(req, b) ==
  LET done == req.completed_backends \cup {b} IN
  IF Cardinality(done) >= req.backend_quantity
    THEN [req EXCEPT !.completed_backends = done, !.end_time = "set", !.change_lock = b]
    ELSE [req EXCEPT !.completed_backends = done, !.ready = FALSE]

\* add_completed_backend, from _change_lock.acquire() to the stamping of
\* end_time: the backend is added to the set; when the set has reached
\* backend_quantity the lock is kept for the assignment of ready
AddCompletedBackend(req, b) ==
  LET done == req.completed_backends \cup {b} IN
  IF Cardinality(done) >= req.backend_quantity
    THEN [req EXCEPT !.completed_backends = done, !.end_time = "set", !.change_lock = b]
    ELSE [req EXCEPT !.completed_backends = done]

MonitorRegister(b) ==
  /\ monitor[b].pc = "register"
  /\ LET r == monitor[b].request IN
       /\ requests[r].change_lock = "free"
       /\ requests' = [requests EXCEPT ![r] = AddCompletedBackend(@, b)]
       /\ monitor' = [monitor EXCEPT ![b].pc =
                        IF AddCompletedBackend(requests[r], b).change_lock = b
                          THEN "set_ready" ELSE "notify"]
  /\ UNCHANGED <<queue, backend_queue>>
  /\ UNCHANGED MonitorUnchanged

\* add_completed_backend: self.ready = True; _change_lock.release()
MonitorSetReady(b) ==
  /\ monitor[b].pc = "set_ready"
  /\ requests' = [requests EXCEPT ![monitor[b].request].ready = TRUE,
                                  ![monitor[b].request].change_lock = "free"]
  /\ monitor' = [monitor EXCEPT ![b].pc = "notify"]
  /\ UNCHANGED <<queue, backend_queue>>
  /\ UNCHANGED MonitorUnchanged

\* `if search_request.ready: self.leet.notify_search_completed(...)`, task_done
MonitorNotify(b) ==
  /\ monitor[b].pc = "notify"
  /\ queue' = IF requests[monitor[b].request].ready
                THEN Put(queue, "SEARCH_READY", monitor[b].request)
                ELSE queue
  /\ monitor' = [monitor EXCEPT ![b] = [pc |-> "idle", request |-> 0, machines |-> <<>>]]
  /\ UNCHANGED <<backend_queue, requests>>
  /\ UNCHANGED MonitorUnchanged

\* ------------------------------------------- _sched_search: _expire_search
\* the 'date' job added by the SEARCH_BACKEND handler fires (once)
ExpireSearch(req) ==
  IF ~req.ready THEN [req EXCEPT !.ready = TRUE, !.expiry = "fired"]
                ELSE [req EXCEPT !.expiry = "fired"]

_expire_search(r) ==
  /\ r \in DOMAIN requests
  /\ requests[r].expiry = "armed"
  /\ schedulers.search = "running"
  /\ requests' = [requests EXCEPT ![r] = ExpireSearch(@)]
  /\ queue' = IF ~requests[r].ready THEN Put(queue, "SEARCH_READY", r) ELSE queue
  /\ UNCHANGED <<backend_queue, monitor>>
  /\ UNCHANGED MonitorUnchanged

\* ------------------------------------------- online probe and pool workers
JobUnchanged == <<cb_vars, lock_vars, session_vars, schedulers, deployment, leet_state, exit_stack, unwind_wait, job_list,
                  job_notification, requests, backend_queue, monitor,
                  pool_shutdown, fsm_call>>

\* Leet._can_reschedule_job: not cancelled and younger than _job_expiry_timeout
CanRescheduleJob(status, expired) == status # "CANCELLED" /\ ~expired

\* Leet._is_machine_ready, run by _sched_machine when the job's probe fires
\* (act "probe_now" for the immediate probe that _add_job arms, "probe" for
\* one armed with the poll interval) or inline by the worker that handles a
\* retryable session error (act "reprobe").  online is machine.can_connect
\* after refresh(); expired tells whether utcnow() has reached start_time +
\* 3 days, which it cannot have at the immediate probe of a new job.
_is_machine_ready(j, online, expired) ==
  /\ j \in JobIds
  /\ jobs[j].act \in {"probe_now", "probe", "reprobe"}
  /\ jobs[j].act \in {"probe_now", "probe"} => schedulers.machine = "running"
  /\ expired => jobs[j].act # "probe_now"
  /\ LET b == jobs[j].backend IN
       IF online
         THEN IF pool_shutdown[b]
                \* Executor.submit after shutdown raises RuntimeError
                THEN /\ jobs' = [jobs EXCEPT ![j].act = "failed",
                                             ![j].exc = [kind |-> "RuntimeError", stop |-> FALSE, msg |-> ""]]
                     /\ UNCHANGED <<pool_queue, queue>>
                ELSE /\ jobs' = [jobs EXCEPT ![j].act = "queued"]
                     /\ pool_queue' = [pool_queue EXCEPT ![b] = Append(@, j)]
                     /\ UNCHANGED queue
         ELSE IF CanRescheduleJob(jobs[j].status, expired)
                THEN /\ jobs' = [jobs EXCEPT ![j].act = "probe"]
                     /\ UNCHANGED <<pool_queue, queue>>
                ELSE /\ jobs' = [jobs EXCEPT ![j].act = "idle", ![j].posted = @ + 1]
                     /\ queue' = Put(queue, "JOB_DONE", j)
                     /\ UNCHANGED pool_queue
  /\ UNCHANGED JobUnchanged

\* mutant of PoolHasFreeWorker: the pool starts a thread for every work item
PoolHasFreeWorker_Unbounded(b) == TRUE

\* ThreadPoolExecutor(max_workers=backend.max_sessions): a work item starts
\* only on one of max_sessions worker threads
PoolHasFreeWorker(b) == Cardinality(BusyWorkers(b)) < MaxSessions

\* mutant of WorkerPickup: the work item stays in the pool's queue, where
\* another worker takes it again
WorkerPickup_KeepsItem(b) ==
  /\ pool_queue[b] # <<>>
  /\ PoolHasFreeWorker(b)
  /\ jobs' = [jobs EXCEPT ![Head(pool_queue[b])].act = "connect",
                          ![Head(pool_queue[b])].attempts = @ + 1,
                          ![Head(pool_queue[b])].session = "none",
                          ![Head(pool_queue[b])].closes = 0]
  /\ UNCHANGED pool_queue
  /\ UNCHANGED queue
  /\ UNCHANGED JobUnchanged

\* a free worker of the backend's ThreadPoolExecutor takes the next work
\* item and enters _execute_plugin
WorkerPickup(b) ==
  /\ pool_queue[b] # <<>>
  /\ PoolHasFreeWorker(b)
  /\ jobs' = [jobs EXCEPT ![Head(pool_queue[b])].act = "connect",
                          ![Head(pool_queue[b])].attempts = @ + 1,
                          ![Head(pool_queue[b])].session = "none",
                          ![Head(pool_queue[b])].closes = 0]
  /\ pool_queue' = [pool_queue EXCEPT ![b] = Tail(@)]
  /\ UNCHANGED queue
  /\ UNCHANGED JobUnchanged

\* what machine.connect() and plugin.run() may raise
SessionRetry == [kind |-> "LeetSessionError", stop |-> FALSE, msg |-> ""]
SessionStop == [kind |-> "LeetSessionError", stop |-> TRUE, msg |-> ""]
\* any exception that is neither LeetSessionError nor LeetPluginError, such
\* as the LeetCommandError of a session operation that the plugin lets through
OtherError == [kind |-> "LeetCommandError", stop |-> FALSE, msg |-> ""]
PluginErrors == {[kind |-> "LeetPluginError", stop |-> FALSE, msg |-> m] : m \in PluginMessages}

\* the outcomes open to the environment for job j: a retryable session
\* error is raised for the first MaxAttempts - 1 attempts only
ConnectOutcomes(j) ==
  {NoExc, SessionStop, OtherError} \cup
  (IF jobs[j].attempts < MaxAttempts THEN {SessionRetry} ELSE {})

RunOutcomes(j) == ConnectOutcomes(j) \cup PluginErrors

\* `with leet_job.machine.connect() as session`: the session is open when
\* connect() returns; an exception of connect() goes to the except clauses
WorkerConnect(j, e) ==
  /\ j \in JobIds
  /\ jobs[j].act = "connect"
  /\ e \in ConnectOutcomes(j)
  /\ jobs' = IF e = NoExc
               THEN [jobs EXCEPT ![j].act = "connected", ![j].session = "open"]
               ELSE [jobs EXCEPT ![j].act = "handler", ![j].exc = e]
  /\ UNCHANGED <<queue, pool_queue>>
  /\ UNCHANGED JobUnchanged

\* leet_job.executing()
WorkerExecuting(j) ==
  /\ j \in JobIds
  /\ jobs[j].act = "connected"
  /\ LET n == FsmNext(jobs[j].status, "executing") IN
       jobs' = IF n.raised = "none"
                 THEN [jobs EXCEPT ![j].status = n.state, ![j].act = "running"]
                 ELSE [jobs EXCEPT ![j].act = "exit",
                                   ![j].exc = [kind |-> n.raised, stop |-> FALSE, msg |-> ""]]
  /\ UNCHANGED <<queue, pool_queue>>
  /\ UNCHANGED JobUnchanged

\* leet_job.plugin_result = leet_job.plugin_instance.run(session, machine)
WorkerRun(j, e) ==
  /\ j \in JobIds
  /\ jobs[j].act = "running"
  /\ e \in RunOutcomes(j)
  /\ jobs' = IF e = NoExc
               THEN [jobs EXCEPT ![j].act = "ran", ![j].plugin_result = PluginRows]
               ELSE [jobs EXCEPT ![j].act = "exit", ![j].exc = e]
  /\ UNCHANGED <<queue, pool_queue>>
  /\ UNCHANGED JobUnchanged

\* leet_job.completed(); self._queue.put((JOB_DONE, leet_job)), both still
\* inside the with block
WorkerCompleted(j) ==
  /\ j \in JobIds
  /\ jobs[j].act = "ran"
  /\ LET n == FsmNext(jobs[j].status, "completed") IN
       IF n.raised = "none"
         THEN /\ jobs' = [jobs EXCEPT ![j].status = n.state, ![j].act = "exit",
                                      ![j].posted = @ + 1]
              /\ queue' = Put(queue, "JOB_DONE", j)
         ELSE /\ jobs' = [jobs EXCEPT ![j].act = "exit",
                                      ![j].exc = [kind |-> n.raised, stop |-> FALSE, msg |-> ""]]
              /\ UNCHANGED queue
  /\ UNCHANGED pool_queue
  /\ UNCHANGED JobUnchanged

\* mutant of SessionExit: the session is closed at the end of the body only,
\* not when an exception leaves it
SessionExit_OnReturnOnly(job) ==
  IF job.exc = NoExc
    THEN [job EXCEPT !.session = "closed", !.closes = @ + 1, !.act = "idle"]
    ELSE [job EXCEPT !.act = "handler"]

\* leaving the with block: CBSession.__exit__ closes the raw session; then
\* the worker is done or the pending exception reaches the except clauses
SessionExit(job) ==
  [job EXCEPT !.session = "closed", !.closes = @ + 1,
              !.act = IF job.exc = NoExc THEN "idle" ELSE "handler"]

WorkerExit(j) ==
  /\ j \in JobIds
  /\ jobs[j].act = "exit"
  /\ jobs' = [jobs EXCEPT ![j] = SessionExit(@)]
  /\ UNCHANGED <<queue, pool_queue>>
  /\ UNCHANGED JobUnchanged

\* mutant of ExceptClauses: the LeetPluginError clause stores the message and
\* posts JOB_DONE without calling leet_job.error()
ExceptClauses_NoErrorCall(job) ==
  LET e == job.exc IN
  IF e.kind = "LeetSessionError" /\ ~e.stop
    THEN LET n == FsmNext(job.status, "pending") IN
         IF n.raised = "none"
           THEN [job |-> [job EXCEPT !.status = n.state, !.act = "reprobe", !.exc = NoExc],
                 post |-> FALSE]
           ELSE [job |-> [job EXCEPT !.act = "failed",
                                     !.exc = [kind |-> n.raised, stop |-> FALSE, msg |-> ""]],
                 post |-> FALSE]
  ELSE IF e.kind = "LeetSessionError"
    THEN [job |-> [job EXCEPT !.act = "idle", !.exc = NoExc, !.posted = @ + 1],
          post |-> TRUE]
  ELSE IF e.kind = "LeetPluginError"
    THEN [job |-> [job EXCEPT !.plugin_result = <<[error_message |-> e.msg]>>,
                              !.act = "idle", !.exc = NoExc, !.posted = @ + 1],
          post |-> TRUE]
  ELSE [job |-> [job EXCEPT !.act = "failed"], post |-> FALSE]

\* mutant of ExceptClauses: the retry branch re-runs the probe without
\* calling leet_job.pending()
ExceptClauses_NoPendingCall(job) ==
  LET e == job.exc IN
  IF e.kind = "LeetSessionError" /\ ~e.stop
    THEN [job |-> [job EXCEPT !.act = "reprobe", !.exc = NoExc], post |-> FALSE]
  ELSE IF e.kind = "LeetSessionError"
    THEN [job |-> [job EXCEPT !.act = "idle", !.exc = NoExc, !.posted = @ + 1],
          post |-> TRUE]
  ELSE IF e.kind = "LeetPluginError"
    THEN LET n == FsmNext(job.status, "error") IN
         IF n.raised = "none"
           THEN [job |-> [job EXCEPT !.status = n.state,
                                     !.plugin_result = <<[error_message |-> e.msg]>>,
                                     !.act = "idle", !.exc = NoExc, !.posted = @ + 1],
                 post |-> TRUE]
           ELSE [job |-> [job EXCEPT !.act = "failed",
                                     !.exc = [kind |-> n.raised, stop |-> FALSE, msg |-> ""]],
                 post |-> FALSE]
  ELSE [job |-> [job EXCEPT !.act = "failed"], post |-> FALSE]

\* mutant of ExceptClauses: the stop branch marks the job as an error before
\* it posts JOB_DONE
ExceptClauses_StopCallsError(job) ==
  LET e == job.exc IN
  IF e.kind = "LeetSessionError" /\ ~e.stop
    THEN LET n == FsmNext(job.status, "pending") IN
         IF n.raised = "none"
           THEN [job |-> [job EXCEPT !.status = n.state, !.act = "reprobe", !.exc = NoExc],
                 post |-> FALSE]
           ELSE [job |-> [job EXCEPT !.act = "failed",
                                     !.exc = [kind |-> n.raised, stop |-> FALSE, msg |-> ""]],
                 post |-> FALSE]
  ELSE IF e.kind = "LeetSessionError"
    THEN [job |-> [job EXCEPT !.status = FsmNext(job.status, "error").state,
                              !.act = "idle", !.exc = NoExc, !.posted = @ + 1],
          post |-> TRUE]
  ELSE IF e.kind = "LeetPluginError"
    THEN LET n == FsmNext(job.status, "error") IN
         IF n.raised = "none"
           THEN [job |-> [job EXCEPT !.status = n.state,
                                     !.plugin_result = <<[error_message |-> e.msg]>>,
                                     !.act = "idle", !.exc = NoExc, !.posted = @ + 1],
                 post |-> TRUE]
           ELSE [job |-> [job EXCEPT !.act = "failed",
                                     !.exc = [kind |-> n.raised, stop |-> FALSE, msg |-> ""]],
                 post |-> FALSE]
  ELSE [job |-> [job EXCEPT !.act = "failed"], post |-> FALSE]

\* the except clauses of _execute_plugin; an exception they do not catch, or
\* raise themselves, stays in the worker's future (_handle_errors re-raises
\* it inside the done-callback, where the executor only logs it)
\* mutant of ExceptClauses: the clause of a session error with stop True
\* posts JOB_DONE and probes the machine again as well
ExceptClauses_StopAlsoRetries(job) ==
  LET e == job.exc IN
  IF e.kind = "LeetSessionError"
    THEN IF e.stop
           THEN [job |-> [job EXCEPT !.act = "reprobe", !.exc = NoExc, !.posted = @ + 1],
                 post |-> TRUE]
           ELSE [job |-> [job EXCEPT !.act = "reprobe", !.exc = NoExc], post |-> FALSE]
    ELSE [job |-> [job EXCEPT !.act = "failed"], post |-> FALSE]

ExceptClauses(job) ==
  LET e == job.exc IN
  IF e.kind = "LeetSessionError" /\ ~e.stop
    THEN LET n == FsmNext(job.status, "pending") IN
         IF n.raised = "none"
           THEN [job |-> [job EXCEPT !.status = n.state, !.act = "reprobe", !.exc = NoExc],
                 post |-> FALSE]
           ELSE [job |-> [job EXCEPT !.act = "failed",
                                     !.exc = [kind |-> n.raised, stop |-> FALSE, msg |-> ""]],
                 post |-> FALSE]
  ELSE IF e.kind = "LeetSessionError"
    THEN [job |-> [job EXCEPT !.act = "idle", !.exc = NoExc, !.posted = @ + 1],
          post |-> TRUE]
  ELSE IF e.kind = "LeetPluginError"
    THEN LET n == FsmNext(job.status, "error") IN
         IF n.raised = "none"
           THEN [job |-> [job EXCEPT !.status = n.state,
                                     !.plugin_result = <<[error_message |-> e.msg]>>,
                                     !.act = "idle", !.exc = NoExc, !.posted = @ + 1],
                 post |-> TRUE]
           ELSE [job |-> [job EXCEPT !.act = "failed",
                                     !.exc = [kind |-> n.raised, stop |-> FALSE, msg |-> ""]],
                 post |-> FALSE]
  ELSE [job |-> [job EXCEPT !.act = "failed"], post |-> FALSE]

HandleException(j) ==
  /\ j \in JobIds
  /\ jobs[j].act = "handler"
  /\ LET h == ExceptClauses(jobs[j]) IN
       /\ jobs' = [jobs EXCEPT ![j] = h.job]
       /\ queue' = IF h.post THEN Put(queue, "JOB_DONE", j) ELSE queue
  /\ UNCHANGED pool_queue
  /\ UNCHANGED JobUnchanged

\* ------------------------------------------------ direct calls on a LeetJob
\* LeetJob.pending / executing / cancel / completed / error, called by a
\* holder of the job object
TriggerCall(j, t) ==
  /\ j \in JobIds
  /\ LET n == FsmNext(jobs[j].status, t) IN
       /\ jobs' = [jobs EXCEPT ![j].status = n.state]
       /\ fsm_call' = [job |-> j, trigger |-> t, before |-> jobs[j].status,
                        after |-> n.state, raised |-> n.raised]
  /\ UNCHANGED <<cb_vars, lock_vars, session_vars, schedulers, deployment, leet_state, exit_stack, unwind_wait, queue, job_list,
                 job_notification, requests, backend_queue, monitor, pool_queue,
                 pool_shutdown>>

\* --------------------------------------- leet/backends/cb.py: Backend search
\* a cbapi Sensor, as far as the backend reads it
Sensor == [hostname : Hosts, last_checkin_time : 1..MaxTime]

\* the lists of at most n elements of S
SeqsUpTo(S, n) == UNION {[1..k -> S] : k \in 0..n}

\* self._cb.select(Sensor).where("hostname:" + hostname): the positions, in
\* the server's order, of the sensors of that hostname
Query(ss, hostname) ==
  SelectSeq([i \in 1..Len(ss) |-> i], LAMBDA i : ss[i].hostname = hostname)

\* mutant of MoreRecent: the comparison keeps the older check-in
MoreRecent_Older(ss, sensor, recent_sensor) ==
  IF recent_sensor = 0 THEN sensor
  ELSE IF ss[sensor].last_checkin_time < ss[recent_sensor].last_checkin_time
    THEN sensor ELSE recent_sensor

\* the body of the loop of _get_sensor: recent_sensor after it has seen
\* sensor (0 is None)
MoreRecent(ss, sensor, recent_sensor) ==
  IF recent_sensor = 0 THEN sensor
  ELSE IF ss[sensor].last_checkin_time > ss[recent_sensor].last_checkin_time
    THEN sensor ELSE recent_sensor

RECURSIVE GetSensorLoop(_, _, _)
\* `for sensor in sensors`, from recent_sensor on
GetSensorLoop(ss, found, recent_sensor) ==
  IF found = <<>> THEN recent_sensor
  ELSE GetSensorLoop(ss, Tail(found), MoreRecent(ss, Head(found), recent_sensor))

\* Backend._get_sensor(hostname): the position of the returned sensor, 0 for None
_get_sensor(ss, hostname) == GetSensorLoop(ss, Query(ss, hostname), 0)

\* the hostname lists of the search requests handed to one backend
SearchHostLists == {<<"H1">>, <<"H2", "H1">>, <<"H1", "H2">>, <<"H1", "H1">>}

\* Backend._search_machines(search_request): a CBMachine(hostname,
\* backend_name, sensor) for every hostname that _get_sensor resolves
MachineList(b, ss, hostnames) ==
  LET hit == SelectSeq(hostnames, LAMBDA h : _get_sensor(ss, h) # 0)
  IN [i \in 1..Len(hit) |->
        [hostname |-> hit[i], backend_name |-> b, sensor |-> _get_sensor(ss, hit[i])]]

_search_machines(b, hostnames) ==
  /\ cb_search' = [backend |-> b, hostnames |-> hostnames,
                    machine_list |-> MachineList(b, sensors[b], hostnames)]
  /\ UNCHANGED <<sensors, enable_solve_conflict, tasks, _sched, _jobs>>
  /\ UNCHANGED <<lock_vars, session_vars, schedulers, deployment, leet_state, exit_stack,
                 unwind_wait, queue, job_list,
                 job_notification, jobs, requests, backend_queue, monitor,
                 pool_queue, pool_shutdown, fsm_call>>

\* ------------------------------------- leet/cb.py: the multi-instance Backend
\* str.lower of a hostname, the key of the sort and of the groupby
Lower(hostname) == IF hostname = "H1" THEN "h1" ELSE "h2"

\* the keys in ascending order
KeyOrder == <<"h1", "h2">>

\* the task lists handed to add_tasks: new LeetJob objects, one per hostname
TaskLists == {<<"H1">>, <<"H1", "H2">>}

\* _CBInstance.get_sensor(hostname), for a server with at most one sensor of
\* the hostname: the loop of _get_sensor_most_recent_checkin keeps the first
\* sensor (0 is None)
get_sensor(ss, hostname) ==
  IF Query(ss, hostname) = <<>> THEN 0 ELSE Head(Query(ss, hostname))

\* _CBInstance._search_command: a _CBTask(task, sensor, self) for every task
\* whose hostname the instance resolves, in the order of the tasks
_search_command(b, tks) ==
  LET hit == SelectSeq([i \in 1..Len(tks) |-> i],
                       LAMBDA i : get_sensor(sensors[b], tks[i].hostname) # 0)
  IN [k \in 1..Len(hit) |->
        [leet_job |-> hit[k], hostname |-> tks[hit[k]].hostname, cb_instance |-> b,
         last_checkin_time |->
           sensors[b][get_sensor(sensors[b], tks[hit[k]].hostname)].last_checkin_time]]

RECURSIVE SortByHostname(_, _)
\* result.sort(key=lambda x: str.lower(x.leet_job.hostname)): a stable sort,
\* built key by key from position k of KeyOrder on
SortByHostname(result, k) ==
  IF k > Len(KeyOrder) THEN <<>>
  ELSE SelectSeq(result, LAMBDA x : Lower(x.hostname) = KeyOrder[k])
         \o SortByHostname(result, k + 1)

RECURSIVE SortByCheckin(_, _)
\* list_tasks.sort(key=lambda x: x.sensor.last_checkin_time, reverse=True):
\* stable, built from check-in time t downwards
SortByCheckin(list_tasks, t) ==
  IF t = 0 THEN <<>>
  ELSE SelectSeq(list_tasks, LAMBDA x : x.last_checkin_time = t)
         \o SortByCheckin(list_tasks, t - 1)

RECURSIVE _solve_conflict(_, _, _)
\* Backend._solve_conflict(results) on the sorted results, group by group
\* from position k of KeyOrder on: new_result and the jobs on which error()
\* was called
_solve_conflict(results, flag, k) ==
  IF k > Len(KeyOrder) THEN [new_result |-> <<>>, errors |-> {}]
  ELSE LET list_tasks == SelectSeq(results, LAMBDA x : Lower(x.hostname) = KeyOrder[k])
           rest == _solve_conflict(results, flag, k + 1)
       IN IF list_tasks = <<>> THEN rest
          ELSE IF Len(list_tasks) >= 2 /\ flag
            THEN [new_result |-> <<Head(SortByCheckin(list_tasks, MaxTime))>> \o rest.new_result,
                  errors |-> rest.errors]
          ELSE IF Len(list_tasks) >= 2
            THEN [new_result |-> rest.new_result,
                  errors |-> {list_tasks[1].leet_job} \cup rest.errors]
          ELSE [new_result |-> <<list_tasks[1]>> \o rest.new_result, errors |-> rest.errors]

RECURSIVE JobsDict(_)
\* `self._jobs[cb_task.leet_job.id] = cb_task` for every task of the result:
\* the instance kept for each job, a later task replacing an earlier one
JobsDict(result) ==
  IF result = <<>> THEN <<>>
  ELSE LET d == JobsDict(SubSeq(result, 1, Len(result) - 1))
           last == result[Len(result)]
       IN SelectSeq(d, LAMBDA x : x.leet_job # last.leet_job) \o <<last>>

\* Backend.add_tasks(tasks), called once on a started backend whose searches
\* finish in time; the instance threads append to the shared result list,
\* the results of instance `first` before those of the other
add_tasks(first) ==
  /\ tasks # <<>>
  /\ _sched = <<>>
  /\ \A i \in DOMAIN tasks : tasks[i].status = "PENDING"
  /\ LET others == SelectSeq(BackendOrder, LAMBDA b : b # first)
         found == _search_command(first, tasks) \o _search_command(others[1], tasks)
         result == SortByHostname(found, 1)
         solved == IF Len(result) > Len(tasks)
                     THEN _solve_conflict(result, enable_solve_conflict, 1)
                     ELSE [new_result |-> result, errors |-> {}]
     IN /\ tasks' = [i \in DOMAIN tasks |->
                       IF i \in solved.errors
                         THEN [tasks[i] EXCEPT !.status = FsmNext(@, "error").state]
                         ELSE tasks[i]]
        /\ _sched' = solved.new_result
        /\ _jobs' = JobsDict(solved.new_result)
  /\ UNCHANGED <<sensors, cb_search, enable_solve_conflict>>
  /\ UNCHANGED <<lock_vars, session_vars, schedulers, deployment, leet_state, exit_stack,
                 unwind_wait, queue, job_list,
                 job_notification, jobs, requests, backend_queue, monitor,
                 pool_queue, pool_shutdown, fsm_call>>

\* ------------------------------------------------- Leet's cancel operations
\* Leet.cancel_job(job): the body is `pass`
cancel_job(j) ==
  /\ InList(job_list, j)
  /\ fsm_call' = [job |-> j, trigger |-> "cancel_job", before |-> jobs[j].status,
                   after |-> jobs[j].status, raised |-> "none"]
  /\ UNCHANGED <<cb_vars, lock_vars, session_vars, schedulers, deployment, leet_state, exit_stack, unwind_wait, queue, job_list,
                 job_notification, jobs, requests, backend_queue, monitor,
                 pool_queue, pool_shutdown>>

\* Leet.cancel_by_id(job_id): the body is `pass`
cancel_by_id(j) ==
  /\ InList(job_list, j)
  /\ fsm_call' = [job |-> j, trigger |-> "cancel_by_id", before |-> jobs[j].status,
                   after |-> jobs[j].status, raised |-> "none"]
  /\ UNCHANGED <<cb_vars, lock_vars, session_vars, schedulers, deployment, leet_state, exit_stack, unwind_wait, queue, job_list,
                 job_notification, jobs, requests, backend_queue, monitor,
                 pool_queue, pool_shutdown>>

\* Leet.cancel_all_jobs(): the body is `pass`
cancel_all_jobs ==
  /\ job_list # <<>>
  /\ fsm_call' = [job |-> 0, trigger |-> "cancel_all_jobs", before |-> "none",
                   after |-> "none", raised |-> "none"]
  /\ UNCHANGED <<cb_vars, lock_vars, session_vars, schedulers, deployment, leet_state, exit_stack, unwind_wait, queue, job_list,
                 job_notification, jobs, requests, backend_queue, monitor,
                 pool_queue, pool_shutdown>>

\* ------------------------------------------------------------ specifications
Next ==
  \/ \E hs \in HostLists : schedule_jobs(hs)
  \/ HandleSearchBackend
  \/ HandleSearchReady
  \/ HandleJobDone
  \/ UnwindCall
  \/ UnwindWait
  \/ \E b \in Backends : MonitorGet(b)
  \/ \E b \in Backends : MonitorAppend(b)
  \/ \E b \in Backends : MonitorAddCompleted(b)
  \/ \E b \in Backends : MonitorRegister(b)
  \/ \E b \in Backends : MonitorSetReady(b)
  \/ \E b \in Backends : MonitorNotify(b)
  \/ \E r \in {1} : _expire_search(r)
  \/ \E j \in 1..MaxJobs, online \in BOOLEAN, expired \in BOOLEAN : _is_machine_ready(j, online, expired)
  \/ \E b \in Backends : WorkerPickup(b)
  \/ \E j \in 1..MaxJobs, e \in {NoExc, SessionRetry, SessionStop, OtherError} : WorkerConnect(j, e)
  \/ \E j \in 1..MaxJobs : WorkerExecuting(j)
  \/ \E j \in 1..MaxJobs, e \in {NoExc, SessionRetry, SessionStop, OtherError} \cup PluginErrors : WorkerRun(j, e)
  \/ \E j \in 1..MaxJobs : WorkerCompleted(j)
  \/ \E j \in 1..MaxJobs : WorkerExit(j)
  \/ \E j \in 1..MaxJobs : HandleException(j)

Spec == Init /\ [][Next]_vars

\* two LeetJob objects built by LeetJob(machine, plugin) and driven by hand
InitFSM ==
  /\ InitCommon
  /\ deployment.backends = {"B1"}
  /\ deployment.sensors = {}
  /\ InitCB
  /\ jobs = <<LeetJob([host |-> "H1", backend |-> "B1"]), LeetJob([host |-> "H2", backend |-> "B1"])>>

NextFSM == \E j \in 1..2, t \in Triggers : TriggerCall(j, t)

SpecFSM == InitFSM /\ [][NextFSM]_vars

\* the coordinator with one backend that resolves one of the submitted
\* hostnames, and a front-end that cancels: through Leet's cancel operations
\* or by LeetJob.cancel() on a job object
InitCancel ==
  /\ InitCommon
  /\ deployment = [backends |-> {"B1"}, sensors |-> {<<"B1", "H1">>}]
  /\ InitCB
  /\ jobs = <<>>

NextCancel ==
  \/ Next
  \/ \E j \in 1..MaxJobs : TriggerCall(j, "cancel")
  \/ \E j \in 1..MaxJobs : cancel_job(j)
  \/ \E j \in 1..MaxJobs : cancel_by_id(j)
  \/ cancel_all_jobs

SpecCancel == InitCancel /\ [][NextCancel]_vars

\* one backend of leet/backends/cb.py in front of a CB server that holds any
\* sensors, searched for the machines of a request
InitSearch ==
  /\ InitCommon
  /\ deployment = [backends |-> {"B1"}, sensors |-> {}]
  /\ jobs = <<>>
  /\ sensors \in [Backends -> SeqsUpTo(Sensor, MaxSensors)]
  /\ sensors["B2"] = <<>>
  /\ InitNoSession
  /\ cb_search = NoSearch
  /\ enable_solve_conflict = FALSE
  /\ tasks = <<>>
  /\ _sched = <<>>
  /\ _jobs = <<>>

NextSearch == \E hostnames \in SearchHostLists : _search_machines("B1", hostnames)

SpecSearch == InitSearch /\ [][NextSearch]_vars

\* a CB server holds at most one sensor of a hostname
OneSensorPerHost(ss) ==
  \A i, k \in DOMAIN ss : ss[i].hostname = ss[k].hostname => i = k

\* the Backend of leet/cb.py with two instances, each in front of a server
\* that holds at most one sensor of a hostname, and the jobs handed to it
InitAddTasks ==
  /\ InitCommon
  /\ deployment = [backends |-> {}, sensors |-> {}]
  /\ jobs = <<>>
  /\ sensors \in [Backends -> SeqsUpTo(Sensor, MaxSensors)]
  /\ \A b \in Backends : OneSensorPerHost(sensors[b])
  /\ InitNoSession
  /\ cb_search = NoSearch
  /\ enable_solve_conflict \in BOOLEAN
  /\ \E hs \in TaskLists : tasks = [i \in 1..Len(hs) |-> [hostname |-> hs[i], status |-> "PENDING"]]
  /\ _sched = <<>>
  /\ _jobs = <<>>

NextAddTasks == \E first \in Backends : add_tasks(first)

SpecAddTasks == InitAddTasks /\ [][NextAddTasks]_vars

\* the coordinator with one backend that resolves one of the submitted
\* hostnames, in an environment where a machine that was offline is online
\* again at a later probe and where an attempt that follows the retryable
\* session errors returns normally; no job reaches its expiry
InitRetry ==
  /\ InitCommon
  /\ deployment = [backends |-> {"B1"}, sensors |-> {<<"B1", "H1">>}]
  /\ InitCB
  /\ jobs = <<>>

NextRetry ==
  \/ \E hs \in HostLists : schedule_jobs(hs)
  \/ HandleSearchBackend
  \/ HandleSearchReady
  \/ HandleJobDone
  \/ UnwindCall
  \/ UnwindWait
  \/ \E b \in Backends : MonitorGet(b)
  \/ \E b \in Backends : MonitorAppend(b)
  \/ \E b \in Backends : MonitorAddCompleted(b)
  \/ \E b \in Backends : MonitorRegister(b)
  \/ \E b \in Backends : MonitorSetReady(b)
  \/ \E b \in Backends : MonitorNotify(b)
  \/ \E r \in {1} : _expire_search(r)
  \/ \E j \in 1..MaxJobs, online \in BOOLEAN : _is_machine_ready(j, online, FALSE)
  \/ \E b \in Backends : WorkerPickup(b)
  \/ \E j \in 1..MaxJobs, e \in {NoExc, SessionRetry} : WorkerConnect(j, e)
  \/ \E j \in 1..MaxJobs : WorkerExecuting(j)
  \/ \E j \in 1..MaxJobs, e \in {NoExc, SessionRetry} : WorkerRun(j, e)
  \/ \E j \in 1..MaxJobs : WorkerCompleted(j)
  \/ \E j \in 1..MaxJobs : WorkerExit(j)
  \/ \E j \in 1..MaxJobs : HandleException(j)

\* Thr-Leet, the scheduler threads and the pool workers are threads that
\* keep running: none stops for ever at a step it can take.  A probe that
\* keeps firing finds the machine online in the end, and connect() and run()
\* return normally once the retryable errors are used up.
FairRetry ==
  /\ WF_vars(HandleSearchBackend)
  /\ WF_vars(HandleSearchReady)
  /\ WF_vars(HandleJobDone)
  /\ \A b \in Backends : WF_vars(WorkerPickup(b))
  /\ \A j \in 1..MaxJobs :
       /\ WF_vars(_is_machine_ready(j, TRUE, FALSE))
       /\ WF_vars(WorkerConnect(j, NoExc))
       /\ WF_vars(WorkerExecuting(j))
       /\ WF_vars(WorkerRun(j, NoExc))
       /\ WF_vars(WorkerCompleted(j))
       /\ WF_vars(WorkerExit(j))
       /\ WF_vars(HandleException(j))

SpecRetry == InitRetry /\ [][NextRetry]_vars /\ FairRetry

\* the coordinator, without a backend or with one that resolves one of the
\* submitted hostnames, and a front-end that calls shutdown() at any moment
InitShutdown ==
  /\ InitCommon
  /\ deployment \in { [backends |-> {},     sensors |-> {}],
                      [backends |-> {"B1"}, sensors |-> {<<"B1", "H1">>}] }
  /\ InitCB
  /\ jobs = <<>>

NextShutdown ==
  \/ Next
  \/ shutdown
  \/ HandleStop

\* no thread stops for ever at a step it can take: Thr-Leet in its loop and
\* in the exits of its ExitStack, the monitor thread of each backend, and the
\* pool workers, whose connect() and run() return or raise (every plugin
\* body terminates) and which run _is_machine_ready inline after a retryable
\* session error.  Nothing is assumed of the front-end or of the schedulers.
FairShutdown ==
  /\ WF_vars(HandleSearchBackend)
  /\ WF_vars(HandleSearchReady)
  /\ WF_vars(HandleJobDone)
  /\ WF_vars(HandleStop)
  /\ WF_vars(UnwindCall)
  /\ WF_vars(UnwindWait)
  /\ \A b \in Backends :
       /\ WF_vars(MonitorGet(b))
       /\ WF_vars(MonitorAppend(b))
       /\ WF_vars(MonitorAddCompleted(b))
       /\ WF_vars(MonitorRegister(b))
       /\ WF_vars(MonitorSetReady(b))
       /\ WF_vars(MonitorNotify(b))
       /\ WF_vars(WorkerPickup(b))
  /\ \A j \in 1..MaxJobs :
       /\ WF_vars(\E e \in {NoExc, SessionRetry, SessionStop, OtherError} : WorkerConnect(j, e))
       /\ WF_vars(WorkerExecuting(j))
       /\ WF_vars(\E e \in {NoExc, SessionRetry, SessionStop, OtherError} \cup PluginErrors :
                     WorkerRun(j, e))
       /\ WF_vars(WorkerCompleted(j))
       /\ WF_vars(WorkerExit(j))
       /\ WF_vars(HandleException(j))
       /\ WF_vars(\E online \in BOOLEAN, expired \in BOOLEAN :
                     _is_machine_ready(j, online, expired) /\ jobs[j].act = "reprobe")

SpecShutdown == InitShutdown /\ [][NextShutdown]_vars /\ FairShutdown

\* --------------------------------------- _JobFSM.next under concurrent calls
\* mutant of LockAvailable: acquire() never waits
LockAvailable_Always(lock, c) == TRUE

\* RLock.acquire() returns when no other thread holds the lock
LockAvailable(lock, c) == lock \in {"free", c}

LockUnchanged == <<cb_vars, session_vars, schedulers, deployment, leet_state, exit_stack,
                   unwind_wait, queue, job_list, job_notification, jobs, requests,
                   backend_queue, monitor, pool_queue, pool_shutdown, fsm_call>>

\* thread c calls a trigger of the job: LeetJob.<condition>() is
\* self._status_machine.next(condition)
CallNext(c, condition) ==
  /\ callers[c].pc = "idle"
  /\ callers' = [callers EXCEPT ![c] = [NotCalling EXCEPT !.pc = "acquire",
                                                          !.condition = condition]]
  /\ UNCHANGED job_fsm
  /\ UNCHANGED LockUnchanged

\* self._t_lock.acquire()
Acquire(c) ==
  /\ callers[c].pc = "acquire"
  /\ LockAvailable(job_fsm._t_lock, c)
  /\ job_fsm' = [job_fsm EXCEPT !._t_lock = c]
  /\ callers' = [callers EXCEPT ![c].pc = "lookup"]
  /\ UNCHANGED LockUnchanged

\* the right-hand side self._transitions[(self.current_state, condition)]:
\* current_state is read and looked up; a missing key is a KeyError, whose
\* except clause evaluates `raise LeetError(...)`
Lookup(c) ==
  /\ callers[c].pc = "lookup"
  /\ callers' = [callers EXCEPT ![c] =
       IF HasTransition(job_fsm.current_state, callers[c].condition)
         THEN [@ EXCEPT !.pc = "store", !.read = job_fsm.current_state]
         ELSE [@ EXCEPT !.pc = "release", !.read = job_fsm.current_state,
                        !.raised = RaisedOnInvalidTransition]]
  /\ UNCHANGED job_fsm
  /\ UNCHANGED LockUnchanged

\* the assignment self.current_state = <the destination looked up>
Store(c) ==
  /\ callers[c].pc = "store"
  /\ job_fsm' = [job_fsm EXCEPT !.current_state =
                                   TransitionDest(callers[c].read, callers[c].condition)]
  /\ callers' = [callers EXCEPT ![c].pc = "release"]
  /\ UNCHANGED LockUnchanged

\* finally: self._t_lock.release(); next() returns or the exception leaves it
Release(c) ==
  /\ callers[c].pc = "release"
  /\ job_fsm' = [job_fsm EXCEPT !._t_lock = "free"]
  /\ callers' = [callers EXCEPT ![c].pc = "done"]
  /\ UNCHANGED LockUnchanged

\* one LeetJob in any status, and two threads that each call one of its
\* triggers
InitLock ==
  /\ InitCoordinator
  /\ deployment = [backends |-> {}, sensors |-> {}]
  /\ InitCB
  /\ jobs = <<>>
  /\ \E s \in LeetJobStatus : job_fsm = JobFSM(s)
  /\ callers = [c \in Threads |-> NotCalling]

NextLock ==
  \/ \E c \in Threads, t \in Triggers : CallNext(c, t)
  \/ \E c \in Threads : Acquire(c)
  \/ \E c \in Threads : Lookup(c)
  \/ \E c \in Threads : Store(c)
  \/ \E c \in Threads : Release(c)

SpecLock == InitLock /\ [][NextLock]_vars

\* ------------------------------------------- CBSession of leet/backends/cb.py
\* A path string is held as the list that str.split(path_separator) makes of
\* it: "C:\a\b" is <<"C:", "a", "b">>, "C:" is <<"C:">>, and a trailing
\* separator leaves an empty last segment, "C:\a\" is <<"C:", "a", "">>.
Root == "C:"
Names == {"a", "b"}

NameSeqs(n) == UNION {[1..k -> Names] : k \in 0..n}

\* the root and the paths of up to n components below it
AbsPaths(n) == {<<Root>> \o q : q \in NameSeqs(n)}

\* the same with and without a trailing separator
PathStrings(n) == AbsPaths(n) \cup {q \o <<"">> : q \in AbsPaths(n)}

Parent(q) == SubSeq(q, 1, Len(q) - 1)

\* what a CB dirlist tells of an entry besides its filename
Directory == [attributes |-> {"DIRECTORY"}, size |-> 0]

RegularFile(size) == [attributes |-> {"ARCHIVE"}, size |-> size]

\* the trees of directories: every directory lies in a directory that exists
DirectoryTrees ==
  {ps \in SUBSET (AbsPaths(MaxDepth) \ {<<Root>>}) :
     \A q \in ps : Len(q) > 2 => Parent(q) \in ps}

\* the disks that hold directories only
FileSystems == {[q \in ps |-> Directory] : ps \in DirectoryTrees}

\* path_separator.join(parts); joining nothing gives the empty string
Join(parts) == IF parts = <<>> THEN <<"">> ELSE parts

\* remote_file_path[-1] == self.path_separator
EndsWithSeparator(q) == Len(q) >= 2 /\ q[Len(q)] = ""

\* the path a command of the raw session acts on
Normal(q) == IF EndsWithSeparator(q) THEN Parent(q) ELSE q

IsDirectory(fs, d) ==
  \/ d = <<Root>>
  \/ d \in DOMAIN fs /\ "DIRECTORY" \in fs[d].attributes

\* the dirlist entry of path q
Entry(fs, q) ==
  [filename |-> q[Len(q)], attributes |-> fs[q].attributes, size |-> fs[q].size]

\* the entries of directory d
Entries(fs, d) ==
  {Entry(fs, q) : q \in {x \in DOMAIN fs : Len(x) = Len(d) + 1 /\ Parent(x) = d}}

\* the disk with path q set to what e tells
WithEntry(fs, q, e) == [x \in DOMAIN fs \cup {q} |-> IF x = q THEN e ELSE fs[x]]

\* the disks of a machine: a tree of directories, alone or with one regular
\* file of one of the given sizes in one of its directories
Disks(sizes) ==
  FileSystems \cup
  UNION {{WithEntry(fs, q, RegularFile(n)) :
            q \in {x \in AbsPaths(MaxDepth) \ {<<Root>>} :
                    x \notin DOMAIN fs /\ IsDirectory(fs, Parent(x))},
            n \in sizes} : fs \in FileSystems}

\* the disk without path d and without what lies below it
Without(fs, d) ==
  [x \in {y \in DOMAIN fs : ~(Len(y) >= Len(d) /\ SubSeq(y, 1, Len(d)) = d)} |-> fs[x]]

\* the processes the machine runs, as the raw session lists them
RunningProcesses ==
  {[username |-> "SYSTEM", pid |-> 4, parent |-> 0, create_time |-> 0,
    command_line |-> <<"">>, path |-> <<"">>],
   [username |-> "user", pid |-> 8, parent |-> 4, create_time |-> 1,
    command_line |-> <<Root, "a", "cmd.exe /c x">>, path |-> <<Root, "a", "cmd.exe">>]}

\* the error classes the CB client may raise from a command or from
\* lr_session(): the two of cbapi.errors that this module names and the
\* LiveResponseError and ApiError that _execute names
ClientErrors == {"TimeoutError", "ObjectNotFoundError", "LiveResponseError", "ApiError"}

\* leet.errors: what a session operation is meant to raise
LeetSessionErrors == {"LeetSessionError", "LeetCommandError"}

\* mutant of ExecuteRaises: every error of the client is a LeetCommandError
ExecuteRaises_CatchAll(client) == "LeetCommandError"

\* the except clauses of CBSession._execute: what leaves _execute when the
\* raw command raises an error of class client
ExecuteRaises(client) ==
  IF client = "TimeoutError" THEN "LeetSessionError"
  ELSE IF client = "LiveResponseError" THEN "LeetCommandError"
  ELSE client

\* the except clauses of CBMachine.connect
ConnectRaises(client) ==
  IF client \in {"TimeoutError", "ObjectNotFoundError"} THEN "LeetSessionError"
  ELSE client

\* the commands of _mapping_table on the raw session, against the machine's
\* file system: the new file system, the value returned and the error class
\* raised (LiveResponseError when the machine cannot carry the command out)
RawCommand(fs, cmd, q) ==
  LET d == Normal(q) IN
  IF cmd = "dir_list"
    THEN IF EndsWithSeparator(q) \/ d = <<Root>>
           \* the content of the directory
           THEN IF IsDirectory(fs, d)
                  THEN [fs |-> fs, value |-> Entries(fs, d), client |-> "none"]
                  ELSE [fs |-> fs, value |-> {}, client |-> "LiveResponseError"]
           \* without a trailing separator: the entry of the path itself
           ELSE IF d \in DOMAIN fs
                  THEN [fs |-> fs, value |-> {Entry(fs, d)}, client |-> "none"]
                  ELSE [fs |-> fs, value |-> {}, client |-> "LiveResponseError"]
  ELSE IF cmd = "make_dir"
    THEN IF Len(d) >= 2 /\ d \notin DOMAIN fs /\ IsDirectory(fs, Parent(d))
           THEN [fs |-> WithEntry(fs, d, Directory), value |-> {}, client |-> "none"]
           ELSE [fs |-> fs, value |-> {}, client |-> "LiveResponseError"]
  ELSE IF cmd = "delete_file"
    THEN IF d \in DOMAIN fs
           THEN [fs |-> Without(fs, d), value |-> {}, client |-> "none"]
           ELSE [fs |-> fs, value |-> {}, client |-> "LiveResponseError"]
  ELSE IF cmd = "get_file"
    THEN IF d \in DOMAIN fs /\ ~IsDirectory(fs, d)
           THEN [fs |-> fs, value |-> {Entry(fs, d)}, client |-> "none"]
           ELSE [fs |-> fs, value |-> {}, client |-> "LiveResponseError"]
  ELSE IF cmd = "list_processes"
    THEN [fs |-> fs, value |-> RunningProcesses, client |-> "none"]
  ELSE IF cmd = "start_process"
    THEN [fs |-> fs, value |-> {}, client |-> "none"]
  ELSE \* put_file
       IF Len(d) >= 2 /\ ~IsDirectory(fs, d) /\ IsDirectory(fs, Parent(d))
           THEN [fs |-> WithEntry(fs, d, RegularFile(0)), value |-> {}, client |-> "none"]
           ELSE [fs |-> fs, value |-> {}, client |-> "LiveResponseError"]

\* F applied to the value of v, which is computed once
Bind(v, F(_)) == CHOOSE y \in {F(x) : x \in {v}} : TRUE

\* CBSession._execute(cmd, path): the command is issued on the raw session
\* and its error, if any, goes through the except clauses
Execute(fs, calls, cmd, q) ==
  Bind(RawCommand(fs, cmd, q), LAMBDA r :
    [fs |-> r.fs, calls |-> Append(calls, [cmd |-> cmd, path |-> q]), value |-> r.value,
     raised |-> IF r.client = "none" THEN "none" ELSE ExecuteRaises(r.client)])

\* CBSession.exists(remote_file_path)
Exists(fs, calls, q) ==
  IF Len(q) = 1
    THEN [fs |-> fs, calls |-> calls, value |-> FALSE, raised |-> "LeetCommandError"]
    ELSE LET idx == IF EndsWithSeparator(q) THEN 2 ELSE 1
             file_name == q[Len(q) + 1 - idx]
             path == Join(SubSeq(q, 1, Len(q) - idx)) \o <<"">> IN
         Bind(Execute(fs, calls, "dir_list", path), LAMBDA list_dir :
           IF list_dir.raised = "LeetCommandError"
             THEN [list_dir EXCEPT !.value = FALSE, !.raised = "none"]
             ELSE IF list_dir.raised # "none"
               THEN [list_dir EXCEPT !.value = FALSE]
               ELSE [list_dir EXCEPT !.value = \E a \in list_dir.value : a.filename = file_name])

\* mutant of FirstMissing: everything below the root is taken to be missing
FirstMissing_FromRoot(fs, calls, check, path_parts, i) ==
  [index |-> IF path_parts = <<>> THEN 0 ELSE 1, calls |-> calls, raised |-> "none"]

RECURSIVE FirstMissing(_, _, _, _, _)
\* the first loop of make_dir, from its i-th turn on: the index at which it
\* breaks (0 when it runs to its end)
FirstMissing(fs, calls, check, path_parts, i) ==
  IF i > Len(path_parts)
    THEN [index |-> 0, calls |-> calls, raised |-> "none"]
    ELSE Bind(Exists(fs, calls, Join(Append(check, path_parts[i]))), LAMBDA e :
           IF e.raised # "none" THEN [index |-> 0, calls |-> e.calls, raised |-> e.raised]
           ELSE IF ~e.value THEN [index |-> i, calls |-> e.calls, raised |-> "none"]
           ELSE FirstMissing(fs, e.calls, Append(check, path_parts[i]), path_parts, i + 1))

RECURSIVE CreateMissing(_, _, _, _, _)
\* the second loop of make_dir, from path_parts[i] on
CreateMissing(fs, calls, check, path_parts, i) ==
  IF i > Len(path_parts)
    THEN [fs |-> fs, calls |-> calls, raised |-> "none"]
    ELSE Bind(Execute(fs, calls, "make_dir", Join(Append(check, path_parts[i]))), LAMBDA c :
           IF c.raised # "none" THEN [fs |-> c.fs, calls |-> c.calls, raised |-> c.raised]
           ELSE CreateMissing(c.fs, c.calls, Append(check, path_parts[i]), path_parts, i + 1))

\* CBSession.make_dir(remote_path, recursive)
MakeDir(fs, calls, remote_path, recursive) ==
  LET parts == IF remote_path[Len(remote_path)] = "" THEN Parent(remote_path) ELSE remote_path IN
  IF parts = <<>>
    THEN [fs |-> fs, calls |-> calls, raised |-> "IndexError"]
    ELSE LET check == <<Head(parts)>>
             path_parts == Tail(parts) IN
         IF recursive
           THEN Bind(FirstMissing(fs, calls, check, path_parts, 1), LAMBDA m :
                  IF m.raised # "none" THEN [fs |-> fs, calls |-> m.calls, raised |-> m.raised]
                  ELSE IF m.index > 0
                    THEN CreateMissing(fs, m.calls, check \o SubSeq(path_parts, 1, m.index - 1),
                                       path_parts, m.index)
                    ELSE [fs |-> fs, calls |-> m.calls, raised |-> "none"])
           ELSE Bind(Execute(fs, calls, "make_dir", remote_path), LAMBDA c :
                  [fs |-> c.fs, calls |-> c.calls, raised |-> c.raised])

\* put_file from `remote_path = ...` on: d is the session after the first
\* statement
PutFileInParent(d, remote_file_path) ==
  LET remote_path == Join(Parent(remote_file_path)) IN
  Bind(Exists(d.fs, d.calls, remote_path), LAMBDA e2 :
    IF e2.raised # "none" THEN [fs |-> d.fs, calls |-> e2.calls, raised |-> e2.raised]
    ELSE Bind(IF ~e2.value THEN MakeDir(d.fs, e2.calls, remote_path, TRUE)
                           ELSE [fs |-> d.fs, calls |-> e2.calls, raised |-> "none"],
              LAMBDA m :
                IF m.raised # "none" THEN m
                ELSE Bind(Execute(m.fs, m.calls, "put_file", remote_file_path), LAMBDA w :
                       [fs |-> w.fs, calls |-> w.calls, raised |-> w.raised])))

\* CBSession.put_file(fp, remote_file_path, overwrite)
PutFile(fs, calls, remote_file_path, overwrite) ==
  Bind(Exists(fs, calls, remote_file_path), LAMBDA e1 :
    IF e1.raised # "none" THEN [fs |-> fs, calls |-> e1.calls, raised |-> e1.raised]
    ELSE Bind(IF e1.value /\ overwrite
                THEN Execute(fs, e1.calls, "delete_file", remote_file_path)
                ELSE [fs |-> fs, calls |-> e1.calls, raised |-> "none"],
              LAMBDA d :
                IF d.raised # "none" THEN [fs |-> d.fs, calls |-> d.calls, raised |-> d.raised]
                ELSE PutFileInParent([fs |-> d.fs, calls |-> d.calls], remote_file_path)))

SessionUnchanged == <<sensors, cb_search, enable_solve_conflict, tasks, _sched, _jobs,
                      lock_vars, schedulers, deployment, leet_state, exit_stack,
                      unwind_wait, queue, job_list, job_notification, jobs, requests,
                      backend_queue, monitor, pool_queue, pool_shutdown, fsm_call,
                      plugin_call>>

\* the session has not been used yet
SessionFresh == session_call.op = "none"

\* an operation called on the session ends as r tells
SessionCall(op, q, flag, r) ==
  /\ remote_fs' = r.fs
  /\ raw_calls' = r.calls
  /\ session_call' = [op |-> op, path |-> q, flag |-> flag, client |-> "none",
                      raised |-> r.raised, before |-> remote_fs]
  /\ UNCHANGED SessionUnchanged

exists(q) ==
  /\ SessionFresh
  /\ \E r \in {Exists(remote_fs, raw_calls, q)} :
       SessionCall("exists", q, r.value, r)

make_dir(remote_path, recursive) ==
  /\ SessionFresh
  /\ \E r \in {MakeDir(remote_fs, raw_calls, remote_path, recursive)} :
       SessionCall("make_dir", remote_path, recursive, r)

put_file(remote_file_path, overwrite) ==
  /\ SessionFresh
  /\ \E r \in {PutFile(remote_fs, raw_calls, remote_file_path, overwrite)} :
       SessionCall("put_file", remote_file_path, overwrite, r)

\* the operations that hand one command to _execute: list_processes,
\* get_file, delete_file, start_process, list_dir
SessionCommands == {"list_processes", "get_file", "delete_file", "start_process", "dir_list"}

\* _execute(cmd, ...) when the client raises an error of class client
_execute(cmd, client) ==
  /\ SessionFresh
  /\ raw_calls' = Append(raw_calls, [cmd |-> cmd, path |-> <<>>])
  /\ session_call' = [NoSessionCall EXCEPT !.op = cmd, !.client = client,
                                           !.raised = ExecuteRaises(client),
                                           !.before = remote_fs]
  /\ UNCHANGED remote_fs
  /\ UNCHANGED SessionUnchanged

\* CBMachine.connect() when sensor.lr_session() raises an error of class client
connect(client) ==
  /\ SessionFresh
  /\ session_call' = [NoSessionCall EXCEPT !.op = "connect", !.client = client,
                                           !.raised = ConnectRaises(client),
                                           !.before = remote_fs]
  /\ UNCHANGED <<remote_fs, raw_calls>>
  /\ UNCHANGED SessionUnchanged

\* a CBSession connected to a machine with any disk, on which one operation
\* is called
InitSession ==
  /\ InitCommon
  /\ deployment = [backends |-> {}, sensors |-> {}]
  /\ InitCBServers
  /\ jobs = <<>>
  /\ remote_fs \in Disks({0})
  /\ raw_calls = <<>>
  /\ session_call = NoSessionCall
  /\ plugin_call = NoPluginCall

NextSession ==
  \/ \E q \in PathStrings(MaxDepth + 1) : exists(q)
  \/ \E q \in PathStrings(MaxDepth + 1), recursive \in BOOLEAN : make_dir(q, recursive)
  \/ \E q \in AbsPaths(MaxDepth + 1) \ {<<Root>>}, overwrite \in BOOLEAN : put_file(q, overwrite)
  \/ \E cmd \in SessionCommands, client \in ClientErrors : _execute(cmd, client)
  \/ \E client \in ClientErrors : connect(client)

SpecSession == InitSession /\ [][NextSession]_vars

\* ------------------------------------------------- the plugins of leet/plugins
\* self.max_size of file_download
max_size == 52428800

\* sys.maxsize, the size _check_remote_file_size starts from: it is
\* 2^63 - 1, held here as the largest integer there is; only its order
\* against max_size is used
sys_maxsize == 2147483647

\* the sizes of the regular file of a disk, around max_size
FileSizes == {max_size - 1, max_size, max_size + 1}

\* "c:\song.txt", the file that process_list reads
SongFile == <<Root, "song.txt">>

\* the disks the plugins run on: with any regular file, or with none but
\* c:\song.txt
PluginDisks ==
  Disks(FileSizes) \cup {WithEntry(fs, SongFile, RegularFile(0)) : fs \in FileSystems}

\* CBSession._parse_file_attributes
_parse_file_attributes(attributes) == attributes \cap {"HIDDEN", "DIRECTORY", "SYSTEM"}

\* the rows list_dir makes of the entries of a CB dirlist
DirRows(cb_list_dir) ==
  {[name |-> e.filename, size |-> e.size,
    attributes |-> _parse_file_attributes(e.attributes)] : e \in cb_list_dir}

\* CBSession.list_dir(remote_path)
ListDir(fs, calls, remote_path) ==
  Bind(Execute(fs, calls, "dir_list", remote_path), LAMBDA l1 :
    IF l1.raised # "none" THEN [l1 EXCEPT !.value = {}]
    ELSE IF Cardinality(l1.value) = 1 /\ \A e \in l1.value : "DIRECTORY" \in e.attributes
      THEN Bind(Execute(fs, l1.calls, "dir_list", remote_path \o <<"">>), LAMBDA l2 :
             IF l2.raised # "none" THEN [l2 EXCEPT !.value = {}]
             ELSE [l2 EXCEPT !.value = DirRows(l2.value)])
      ELSE [l1 EXCEPT !.value = DirRows(l1.value)])

\* the rows list_processes makes of the processes of the raw session
ProcessRows(process_list) ==
  {[username |-> q.username, pid |-> q.pid, ppid |-> q.parent,
    start_time |-> [utc |-> q.create_time],
    command_line |-> q.command_line[Len(q.command_line)],
    path |-> q.path] : q \in process_list}

\* CBSession.list_processes()
ListProcesses(fs, calls) ==
  Bind(Execute(fs, calls, "list_processes", <<>>), LAMBDA l :
    IF l.raised # "none" THEN [l EXCEPT !.value = {}]
    ELSE [l EXCEPT !.value = ProcessRows(l.value)])

\* how a run() of a plugin ends: the commands issued, the rows returned and
\* the exception that left it
PluginReturns(calls, data) == [calls |-> calls, data |-> data, raised |-> "none", msg |-> ""]

PluginRaises(calls, raised, msg) == [calls |-> calls, data |-> <<>>, raised |-> raised, msg |-> msg]

\* LeetPlugin.run of process_list
ProcessListRun(fs, calls) ==
  Bind(ListProcesses(fs, calls), LAMBDA data :
    IF data.raised # "none" THEN PluginRaises(data.calls, data.raised, "")
    ELSE Bind(Execute(fs, data.calls, "get_file", SongFile), LAMBDA song :
      IF song.raised # "none" THEN PluginRaises(song.calls, song.raised, "")
      ELSE Bind(Execute(fs, song.calls, "start_process", <<>>), LAMBDA started :
        IF started.raised # "none" THEN PluginRaises(started.calls, started.raised, "")
        ELSE PluginReturns(started.calls, data.value))))

\* mutant of _check_remote_file_size: a file of exactly max_size is refused
_check_remote_file_size_Below(fs, calls, path, file) ==
  Bind(ListDir(fs, calls, path), LAMBDA dir_list :
    IF dir_list.raised # "none" THEN [dir_list EXCEPT !.value = FALSE]
    ELSE LET found == {entry \in dir_list.value : entry.name = file}
             size == IF found = {} THEN sys_maxsize ELSE (CHOOSE entry \in found : TRUE).size IN
         [dir_list EXCEPT !.value = size < max_size])

\* LeetPlugin._check_remote_file_size of file_download
_check_remote_file_size(fs, calls, path, file) ==
  Bind(ListDir(fs, calls, path), LAMBDA dir_list :
    IF dir_list.raised # "none" THEN [dir_list EXCEPT !.value = FALSE]
    ELSE LET found == {entry \in dir_list.value : entry.name = file}
             size == IF found = {} THEN sys_maxsize ELSE (CHOOSE entry \in found : TRUE).size IN
         [dir_list EXCEPT !.value = size <= max_size])

\* run of file_download from `if session.exists(self.args.source)` on
DownloadIfExists(fs, calls, source) ==
  Bind(Exists(fs, calls, source), LAMBDA e :
    IF e.raised # "none" THEN PluginRaises(e.calls, e.raised, "")
    ELSE IF ~e.value THEN PluginRaises(e.calls, "TypeError", "")
    ELSE Bind(_check_remote_file_size(fs, e.calls, Join(Parent(source)), source[Len(source)]),
              LAMBDA c :
      IF c.raised # "none" THEN PluginRaises(c.calls, c.raised, "")
      ELSE IF ~c.value
        THEN PluginRaises(c.calls, "LeetPluginError", "File size is bigger than the allowed.")
        ELSE Bind(Execute(fs, c.calls, "get_file", source), LAMBDA g :
               IF g.raised # "none" THEN PluginRaises(g.calls, g.raised, "")
               ELSE PluginReturns(g.calls, <<[src |-> source, dst |-> "dest_path",
                                              status |-> "ok"]>>))))

\* LeetPlugin.run of file_download, with --source and whether --dest exists
\* on the local disk
FileDownloadRun(fs, calls, source, dest_exists) ==
  IF Len(source) = 1 THEN PluginRaises(calls, "ValueError", "")
  ELSE IF ~dest_exists
    THEN PluginRaises(calls, "LeetPluginError", "The local path does not exists.")
    ELSE DownloadIfExists(fs, calls, source)

\* no plugin has been run on the session yet
PluginFresh == plugin_call.plugin = "none"

\* a run() of a plugin on the session ends as r tells
PluginCall(plugin, source, dest_exists, r) ==
  /\ raw_calls' = r.calls
  /\ plugin_call' = [plugin |-> plugin, source |-> source, dest_exists |-> dest_exists,
                     data |-> r.data, raised |-> r.raised, msg |-> r.msg]
  /\ UNCHANGED <<remote_fs, session_call>>
  /\ UNCHANGED <<cb_vars, lock_vars, schedulers, deployment, leet_state, exit_stack,
                 unwind_wait, queue, job_list, job_notification, jobs, requests,
                 backend_queue, monitor, pool_queue, pool_shutdown, fsm_call>>

process_list_run ==
  /\ PluginFresh
  /\ \E r \in {ProcessListRun(remote_fs, raw_calls)} :
       PluginCall("process_list", <<>>, FALSE, r)

file_download_run(source, dest_exists) ==
  /\ PluginFresh
  /\ \E r \in {FileDownloadRun(remote_fs, raw_calls, source, dest_exists)} :
       PluginCall("file_download", source, dest_exists, r)

\* a session on a machine with any disk, on which one plugin is run
InitPlugin ==
  /\ InitCommon
  /\ deployment = [backends |-> {}, sensors |-> {}]
  /\ InitCBServers
  /\ jobs = <<>>
  /\ remote_fs \in PluginDisks
  /\ raw_calls = <<>>
  /\ session_call = NoSessionCall
  /\ plugin_call = NoPluginCall

NextPlugin ==
  \/ process_list_run
  \/ \E source \in AbsPaths(MaxDepth), dest_exists \in BOOLEAN :
       file_download_run(source, dest_exists)

SpecPlugin == InitPlugin /\ [][NextPlugin]_vars

\* ==================================================================== claims
Count(l, x) == Cardinality({i \in DOMAIN l : l[i] = x})

\* C1: every trigger call on a LeetJob either takes one of the ten
\* transitions of the table and returns, or fails with LeetError and leaves
\* the status as it was; the status changes in no other way.
C1_TransitionTableOrLeetError ==
  fsm_call.trigger # "none" =>
    /\ jobs[fsm_call.job].status = fsm_call.after
    /\ IF HasTransition(fsm_call.before, fsm_call.trigger)
         THEN /\ fsm_call.after = TransitionDest(fsm_call.before, fsm_call.trigger)
              /\ fsm_call.raised = "none"
         ELSE /\ fsm_call.after = fsm_call.before
              /\ fsm_call.raised = "LeetError"

\* no thread will act on job j any more: no probe armed, no work item queued
\* or running, no JOB_DONE for it waiting on the coordinator's queue
Settled(j) ==
  /\ jobs[j].act \in {"idle", "failed"}
  /\ \A i \in DOMAIN queue : queue[i] # [code |-> "JOB_DONE", value |-> j]

Published(j) == Count(job_notification, j)

\* C2: the coordinator sees exactly one JOB_DONE for every job it created and
\* puts the job on the out-queue exactly once: never twice, and once by the
\* time nothing is left to act on the job.
C2_ExactlyOneJobDone ==
  \A j \in JobIds :
    /\ jobs[j].posted <= 1
    /\ Published(j) <= 1
    /\ Settled(j) => Published(j) = 1

TerminalStatus == {"COMPLETED", "CANCELLED", "ERROR"}

JobsOfHost(h) == {j \in JobIds : jobs[j].host = h}

\* C3: every submitted hostname either is resolved by no backend and gets no
\* job, or ends as exactly one published job whose status is terminal.
C3_OnePublishedTerminalJobPerHost ==
  \A r \in DOMAIN requests : \A i \in DOMAIN requests[r].hostnames :
    LET h == requests[r].hostnames[i]
        pub == {j \in JobsOfHost(h) : Published(j) > 0} IN
    /\ Cardinality(pub) <= 1
    /\ \A j \in pub : Published(j) = 1 /\ jobs[j].status \in TerminalStatus
    /\ (\A b \in deployment.backends : <<b, h>> \notin deployment.sensors) => JobsOfHost(h) = {}
    /\ (JobsOfHost(h) # {} /\ \A j \in JobsOfHost(h) : Settled(j)) => Cardinality(pub) = 1

\* C4: a backend never has more than max_sessions sessions open.
C4_SessionsWithinMaxSessions ==
  \A b \in Backends : Cardinality(OpenSessions(b)) <= MaxSessions

\* a session is open for one job of B1 while another job of B1 waits in the
\* pool's work queue
C4_Witness ==
  \E j \in JobIds : /\ jobs[j].backend = "B1"
                     /\ jobs[j].session = "open"
                     /\ pool_queue["B1"] # <<>>

\* C5: however the plugin body ends, the session that connect() returned is
\* closed exactly once, and no session is open once its worker has finished.
C5_SessionClosedExactlyOnce ==
  \A j \in JobIds :
    /\ jobs[j].closes <= 1
    /\ jobs[j].session = "closed" <=> jobs[j].closes = 1
    /\ jobs[j].act \notin {"connected", "running", "ran", "exit"} => jobs[j].session # "open"

\* a worker finished with an exception that no except clause catches, after
\* its session was closed
C5_Witness ==
  \E j \in JobIds : /\ jobs[j].act = "failed"
                     /\ jobs[j].exc.kind = "LeetCommandError"
                     /\ jobs[j].session = "closed"
                     /\ jobs[j].closes = 1

\* C6: no job is in the job table and on the out-queue at once, and a
\* published job never returns to the job table.
C6_TableAndOutQueueDisjoint ==
  \A j \in JobIds : ~(InList(job_list, j) /\ InList(job_notification, j))

\* a job was removed from the job table and published while another job is
\* still in the table
C6_Witness ==
  /\ \E j \in JobIds : InList(job_notification, j) /\ ~InList(job_list, j)
  /\ job_list # <<>>

\* C7: once ready is true of a search request it stays true.
C7_ReadyMonotonic ==
  [][\A r \in DOMAIN requests : requests[r].ready => requests'[r].ready]_vars

\* the request was made ready while a backend that had read ready as false
\* is about to register itself as completed
C7_Witness ==
  \E r \in DOMAIN requests : \E b \in Backends :
    /\ requests[r].ready
    /\ monitor[b].pc = "register"
    /\ monitor[b].request = r

\* C8: a search request that was handed to the backends is ready exactly
\* when its completed-backend set has reached the expected count or its
\* expiry timer has fired.
C8_ReadyIffCompletedOrExpired ==
  \A r \in DOMAIN requests :
    requests[r].expiry # "none" =>
      (requests[r].ready <=>
         \/ Cardinality(requests[r].completed_backends) >= requests[r].backend_quantity
         \/ requests[r].expiry = "fired")

\* C9: once a search request is ready its found-machine list does not change
\* and a late backend leaves ready as it is.
C9_FoundFrozenOnceReady ==
  [][\A r \in DOMAIN requests :
       requests[r].ready =>
         /\ requests'[r].found_machines = requests[r].found_machines
         /\ requests'[r].ready]_vars

JobDone(j) == [code |-> "JOB_DONE", value |-> j]

\* C10: when the except clause for LeetPluginError runs on an Executing job,
\* the job becomes Error, its result is the one row holding the message of
\* the error, one JOB_DONE is posted (the only one of the job) and no probe
\* is armed for it.
C10_PluginErrorEndsInError ==
  [][\A j \in JobIds :
       ( /\ jobs[j].act = "handler"
         /\ jobs[j].exc.kind = "LeetPluginError"
         /\ jobs[j].status = "EXECUTING"
         /\ jobs'[j] # jobs[j] ) =>
       ( /\ jobs'[j].status = "ERROR"
         /\ jobs'[j].plugin_result = <<[error_message |-> jobs[j].exc.msg]>>
         /\ jobs'[j].posted = 1
         /\ queue' = Append(queue, JobDone(j))
         /\ jobs'[j].act = "idle"
         /\ pool_queue' = pool_queue )]_vars

\* a job whose plugin raised LeetPluginError has ended in Error with the
\* message as its result
C10_Witness ==
  \E j \in JobIds : \E m \in PluginMessages :
    /\ jobs[j].status = "ERROR"
    /\ jobs[j].plugin_result = <<[error_message |-> m]>>
    /\ jobs[j].posted = 1

\* C11: when the except clause for a LeetSessionError with stop false runs
\* on an Executing job, the job becomes Pending and the probe is run for it
\* at once, no JOB_DONE is posted by the clause, and a job is Pending
\* whenever that probe is about to evaluate the machine.
C11_RetryableSessionErrorBackToPending ==
  [][\A j \in JobIds :
       /\ ( /\ jobs[j].act = "handler"
            /\ jobs[j].exc = SessionRetry
            /\ jobs[j].status = "EXECUTING"
            /\ jobs'[j] # jobs[j] ) =>
          ( /\ jobs'[j].status = "PENDING"
            /\ jobs'[j].act = "reprobe"
            /\ jobs'[j].posted = jobs[j].posted
            /\ queue' = queue
            /\ pool_queue' = pool_queue )
       /\ jobs'[j].act = "reprobe" => jobs'[j].status = "PENDING"]_vars

\* a job whose session was opened and closed again is back in Pending with
\* its probe about to run and no JOB_DONE posted
C11_Witness ==
  \E j \in JobIds :
    /\ jobs[j].act = "reprobe"
    /\ jobs[j].status = "PENDING"
    /\ jobs[j].session = "closed"
    /\ jobs[j].posted = 0

\* C12: when the except clause for a LeetSessionError with stop true runs,
\* whether connect() or the plugin body raised it, the status of the job
\* stays as it was, one JOB_DONE is posted (the only one of the job) and no
\* probe is armed for it.
C12_StopSessionErrorPostsJobDone ==
  [][\A j \in JobIds :
       ( /\ jobs[j].act = "handler"
         /\ jobs[j].exc = SessionStop
         /\ jobs'[j] # jobs[j] ) =>
       ( /\ jobs'[j].status = jobs[j].status
         /\ jobs'[j].posted = 1
         /\ queue' = Append(queue, JobDone(j))
         /\ jobs'[j].act = "idle"
         /\ pool_queue' = pool_queue )]_vars

\* a job stopped by a session error of the plugin body is still Executing,
\* with its JOB_DONE posted and its session closed
C12_Witness ==
  \E j \in JobIds :
    /\ jobs[j].act = "idle"
    /\ jobs[j].status = "EXECUTING"
    /\ jobs[j].session = "closed"
    /\ jobs[j].posted = 1

\* C13: a probe that finds the machine of a job that is not Cancelled
\* unconnectable either re-arms itself with the status left alone (the job
\* is still eligible), or, the job expiry having passed, posts the one
\* JOB_DONE of the job with the status advanced to Error.
C13_OfflineRearmedThenError ==
  [][\A j \in JobIds :
       ( /\ jobs[j].act \in {"probe_now", "probe", "reprobe"}
         /\ jobs[j].status # "CANCELLED"
         /\ jobs'[j].act \in {"probe", "idle"} ) =>
       IF jobs'[j].act = "probe"
         THEN /\ jobs'[j].status = jobs[j].status
              /\ jobs'[j].posted = jobs[j].posted
              /\ queue' = queue
         ELSE /\ jobs'[j].status = "ERROR"
              /\ jobs'[j].posted = 1
              /\ queue' = Append(queue, JobDone(j))]_vars

\* C14: for a job that was cancelled while no worker had it (its probe is
\* armed, or its work item waits in the pool), the next thing that happens
\* to it is the posting of its one JOB_DONE with the status still Cancelled:
\* it is not submitted to the pool, no worker picks it up, no session is
\* opened.
C14_CancelledBeforeWorkerNeverConnects ==
  [][\A j \in JobIds :
       ( /\ jobs[j].status = "CANCELLED"
         /\ jobs[j].act \in {"probe_now", "probe", "reprobe", "queued"}
         /\ jobs'[j] # jobs[j] ) =>
       ( /\ jobs'[j].act = "idle"
         /\ jobs'[j].status = "CANCELLED"
         /\ jobs'[j].session = jobs[j].session
         /\ jobs'[j].posted = 1
         /\ queue' = Append(queue, JobDone(j)) )]_vars

CancelOperations == {"cancel_job", "cancel_by_id", "cancel_all_jobs"}

\* C15: a call of cancel_job or cancel_by_id for a job of the job table that
\* is Pending or Executing leaves the job Cancelled, and a call of
\* cancel_all_jobs leaves every such job of the table Cancelled.
C15_CancelOperationsCancelLiveJobs ==
  [][( /\ fsm_call' # fsm_call
       /\ fsm_call'.trigger \in CancelOperations ) =>
     \A j \in JobIds :
       ( /\ InList(job_list, j)
         /\ jobs[j].status \in {"PENDING", "EXECUTING"}
         /\ fsm_call'.trigger = "cancel_all_jobs" \/ fsm_call'.job = j ) =>
       jobs'[j].status = "CANCELLED"]_vars

\* C16: cancel() on a job that a worker holds leaves the worker and its
\* session alone; the worker of a Cancelled job still opens the session,
\* executing() keeps the job Cancelled, the plugin runs with the session
\* open, and on its return the job becomes Completed with the result stored
\* and its one JOB_DONE posted.
C16_CancelledInWorkerRunsToCompleted ==
  [][\A j \in JobIds :
       /\ ( /\ fsm_call' # fsm_call
            /\ fsm_call'.trigger = "cancel"
            /\ fsm_call'.job = j ) =>
          ( /\ jobs'[j].act = jobs[j].act
            /\ jobs'[j].session = jobs[j].session
            /\ queue' = queue )
       /\ ( /\ jobs[j].status = "CANCELLED"
            /\ jobs[j].act = "connect"
            /\ jobs'[j].act = "connected" ) =>
          ( /\ jobs'[j].session = "open"
            /\ jobs'[j].status = "CANCELLED" )
       /\ ( /\ jobs[j].status = "CANCELLED"
            /\ jobs[j].act = "connected"
            /\ jobs'[j] # jobs[j] ) =>
          ( /\ jobs'[j].act = "running"
            /\ jobs'[j].session = "open"
            /\ jobs'[j].status = "CANCELLED" )
       /\ ( /\ jobs[j].status = "CANCELLED"
            /\ jobs[j].act = "running"
            /\ jobs'[j] # jobs[j] ) =>
          ( /\ jobs'[j].session = "open"
            /\ jobs'[j].status = "CANCELLED" )
       /\ ( /\ jobs[j].status = "CANCELLED"
            /\ jobs[j].act = "ran"
            /\ jobs'[j] # jobs[j] ) =>
          ( /\ jobs'[j].status = "COMPLETED"
            /\ jobs'[j].plugin_result = PluginRows
            /\ jobs'[j].session = "open"
            /\ jobs'[j].posted = 1
            /\ queue' = Append(queue, JobDone(j)) )]_vars

\* the last call from outside was a cancel() that took a job from Executing
\* to Cancelled, and that job is now Completed with the plugin's rows, its
\* session closed and its JOB_DONE posted
C16_Witness ==
  \E j \in JobIds :
    /\ fsm_call = [job |-> j, trigger |-> "cancel", before |-> "EXECUTING",
                   after |-> "CANCELLED", raised |-> "none"]
    /\ jobs[j].status = "COMPLETED"
    /\ jobs[j].plugin_result = PluginRows
    /\ jobs[j].session = "closed"
    /\ jobs[j].posted = 1

\* C17: when the except clause for LeetPluginError runs on a job that was
\* cancelled inside its worker, the job becomes Error and its one JOB_DONE is
\* posted.
C17_CancelledThenPluginErrorEndsInError ==
  [][\A j \in JobIds :
       ( /\ jobs[j].act = "handler"
         /\ jobs[j].exc.kind = "LeetPluginError"
         /\ jobs[j].status = "CANCELLED"
         /\ jobs'[j] # jobs[j] ) =>
       ( /\ jobs'[j].status = "ERROR"
         /\ jobs'[j].posted = 1
         /\ queue' = Append(queue, JobDone(j)) )]_vars

\* C18: the jobs created for one hostname of a search all use the machine
\* handle of one backend, and there is one of them, also when two backends
\* resolve the hostname.
C18_OneJobPerConflictingHost ==
  \A h \in Hosts :
    (\E b1, b2 \in deployment.backends :
        b1 # b2 /\ <<b1, h>> \in deployment.sensors /\ <<b2, h>> \in deployment.sensors) =>
      /\ Cardinality({jobs[j].backend : j \in JobsOfHost(h)}) <= 1
      /\ Cardinality(JobsOfHost(h)) <= 1

\* the number of elements of the list l that satisfy Test
CountIf(l, Test(_)) == Cardinality({i \in DOMAIN l : Test(l[i])})

\* C20: the machine list a backend returns for a search has no machine for
\* a hostname that no sensor of its server matches and one machine for every
\* other hostname of the request, in the order of the request; the sensor of
\* that machine matches the hostname, no matching sensor has a later
\* check-in, and among the matching sensors of that check-in time it is the
\* first the server returned.
C20_OneMachineOfLatestCheckin ==
  cb_search.backend # "none" =>
    LET ss == sensors[cb_search.backend]
        ml == cb_search.machine_list
        Matching(h) == {i \in DOMAIN ss : ss[i].hostname = h}
    IN /\ \A k \in DOMAIN cb_search.hostnames :
            LET h == cb_search.hostnames[k] IN
            CountIf(ml, LAMBDA m : m.hostname = h) =
              IF Matching(h) = {} THEN 0
              ELSE CountIf(cb_search.hostnames, LAMBDA x : x = h)
       /\ [i \in DOMAIN ml |-> ml[i].hostname] =
            SelectSeq(cb_search.hostnames, LAMBDA h : Matching(h) # {})
       /\ \A i \in DOMAIN ml :
            /\ ml[i].backend_name = cb_search.backend
            /\ ml[i].sensor \in Matching(ml[i].hostname)
            /\ \A o \in Matching(ml[i].hostname) :
                 \/ ss[o].last_checkin_time < ss[ml[i].sensor].last_checkin_time
                 \/ /\ ss[o].last_checkin_time = ss[ml[i].sensor].last_checkin_time
                    /\ ml[i].sensor <= o

\* a search found a machine whose sensor is not the first the server
\* returned for its hostname: an earlier one has an older check-in
C20_Witness ==
  /\ cb_search.backend # "none"
  /\ \E i \in DOMAIN cb_search.machine_list :
       LET m == cb_search.machine_list[i]
           ss == sensors[cb_search.backend] IN
       \E o \in DOMAIN ss :
         /\ o < m.sensor
         /\ ss[o].hostname = m.hostname
         /\ ss[o].last_checkin_time < ss[m.sensor].last_checkin_time

\* the instances that hold a sensor of the hostname of task i
InstancesOf(i) == {b \in Backends : get_sensor(sensors[b], tasks[i].hostname) # 0}

\* C19: with enable_solve_conflict false, add_tasks leaves every job whose
\* hostname two or more instances resolve in Error and schedules no task for
\* it.
C19_ConflictOffMovesJobToError ==
  [][\A i \in DOMAIN tasks :
       (~enable_solve_conflict /\ Cardinality(InstancesOf(i)) >= 2) =>
         /\ tasks'[i].status = "ERROR"
         /\ \A k \in DOMAIN _sched' : _sched'[k].leet_job # i]_vars


\* ------------------------------------------------------------------ C21..C30
\* C21: with zero backends a request handed over by the coordinator is ready
\* at once, without its search-expiry deadline having fired, its SEARCH_READY
\* is handled (Thr-Leet keeps running), and no job is created.
C21_ZeroBackendsReadyAtOnce ==
  deployment.backends = {} =>
    /\ \A r \in DOMAIN requests :
         requests[r].expiry # "none" =>
           requests[r].ready /\ requests[r].expiry # "fired"
    /\ leet_state = "running"
    /\ jobs = <<>>

\* put(m) appends m at the back of a queue
IsPut(q, q2) == Len(q2) = Len(q) + 1 /\ SubSeq(q2, 1, Len(q)) = q

\* C22: the control messages of Leet._queue are handled one at a time in the
\* order they were put: a step that changes the queue either puts one message
\* at its back, or is Thr-Leet, running, taking the message at its front.
C22_MessagesHandledInPutOrder ==
  [][queue' # queue =>
       \/ IsPut(queue, queue')
       \/ /\ leet_state = "running"
          /\ queue # <<>>
          /\ queue' = Tail(queue)]_vars

\* a SEARCH_READY has been handled while two later messages were waiting
C22_Witness ==
  /\ Len(queue) >= 2
  /\ jobs # <<>>
  /\ leet_state = "running"

\* C25: a failure while Thr-Leet handles one message is fatal to that message
\* only: Thr-Leet is still running after it and handles the later messages.
C25_HandlerFailureKeepsCoordinatorRunning ==
  [][leet_state = "running" /\ queue # <<>> /\ queue' = Tail(queue)
       => leet_state' = "running"]_vars

\* the attempt of job j that reached Executing has ended with a retryable
\* LeetSessionError, which is on its way to the except clauses
RetryRaisedWhileExecuting(j) ==
  /\ j \in JobIds
  /\ jobs[j].status = "EXECUTING"
  /\ jobs[j].act \in {"exit", "handler"}
  /\ jobs[j].exc = SessionRetry

\* job j is back in Pending after an attempt that had opened a session
PendingAfterRetry(j) ==
  /\ j \in JobIds
  /\ jobs[j].status = "PENDING"
  /\ jobs[j].act \in {"reprobe", "probe", "queued"}
  /\ jobs[j].session = "closed"

ExecutingAgain(j) ==
  /\ j \in JobIds
  /\ jobs[j].status = "EXECUTING"
  /\ jobs[j].attempts >= 2

PublishedCompleted(j) ==
  /\ j \in JobIds
  /\ jobs[j].status = "COMPLETED"
  /\ Published(j) = 1

\* C23: a job whose attempt ends with a retryable LeetSessionError after it
\* reached Executing is seen in Pending, is Executing again on a later
\* attempt and is in the end on the out-queue once, with status Completed,
\* and never there twice.
C23_RetriedJobCompletesOnce ==
  \A j \in 1..MaxJobs :
    /\ RetryRaisedWhileExecuting(j) ~> PendingAfterRetry(j)
    /\ PendingAfterRetry(j) ~> ExecutingAgain(j)
    /\ ExecutingAgain(j) ~> PublishedCompleted(j)
    /\ [](j \in JobIds => Published(j) <= 1)

\* a job that ran twice is Completed and on the out-queue
C23_Witness ==
  \E j \in JobIds :
    /\ jobs[j].attempts = 2
    /\ jobs[j].closes = 1
    /\ PublishedCompleted(j)

StopPending == \E i \in DOMAIN queue : queue[i].code = "STOP"

\* every backend's monitor thread has ended and its pool is shut down, with
\* no work item left
BackendsShutDown ==
  \A b \in deployment.backends :
    /\ monitor[b].pc = "stopped"
    /\ pool_shutdown[b]
    /\ pool_queue[b] = <<>>
    /\ BusyWorkers(b) = {}

\* C24: once shutdown() has been called, both schedulers are stopped and in
\* the end the STOP message has been handled, every backend's monitor thread
\* and pool is shut down, and Thr-Leet has ended.
C24_ShutdownStopsEverything ==
  (schedulers # SchedulersRunning) ~>
     /\ schedulers = SchedulersStopped
     /\ ~StopPending
     /\ BackendsShutDown
     /\ leet_state = "dead"

\* the calls of c1 and then of c2, made one after the other from the status
\* the job had, end as the two concurrent calls ended
SerialOrder(c1, c2) ==
  LET n1 == FsmNext(job_fsm.entry, callers[c1].condition)
      n2 == FsmNext(n1.state, callers[c2].condition) IN
  /\ callers[c1].raised = n1.raised
  /\ callers[c2].raised = n2.raised
  /\ job_fsm.current_state = n2.state

\* C26: trigger calls made on one job from two threads at once are
\* serialised by the job's lock: a call that is about to write its
\* destination has read the status the job still has, and when both calls are
\* over the status and the outcome of each call are those of the two calls
\* made one after the other in some order.
C26_ConcurrentTriggersSerialised ==
  /\ \A c \in Threads :
       callers[c].pc = "store" => callers[c].read = job_fsm.current_state
  /\ (\A c \in Threads : callers[c].pc = "done") =>
       \/ SerialOrder("front-end", "worker")
       \/ SerialOrder("worker", "front-end")

\* cancel() from the front-end waits for the lock while the worker, inside
\* completed(), has read the status and not yet written its destination
C26_Witness ==
  /\ callers["worker"].pc = "store"
  /\ callers["worker"].condition = "completed"
  /\ callers["front-end"].pc = "acquire"
  /\ callers["front-end"].condition = "cancel"

\* C27: whatever error the CB client raises from a command handed to
\* _execute or from lr_session() inside connect(), the caller sees a
\* LeetSessionError or a LeetCommandError.
C27_ClientErrorsBecomeLeetErrors ==
  session_call.client # "none" => session_call.raised \in LeetSessionErrors

\* none of the directories that path q names below the root is a regular
\* file on disk fs
ThroughDirectories(fs, q) ==
  \A k \in 2..(Len(q) - 1) :
    SubSeq(q, 1, k) \in DOMAIN fs => IsDirectory(fs, SubSeq(q, 1, k))

\* the paths of the commands cmd that the session issued, in order
Issued(cmd) ==
  LET sel == SelectSeq(raw_calls, LAMBDA c : c.cmd = cmd) IN
    [i \in 1..Len(sel) |-> sel[i].path]

IssuedBefore(cmd1, cmd2) ==
  \E i, k \in DOMAIN raw_calls :
    i < k /\ raw_calls[i].cmd = cmd1 /\ raw_calls[k].cmd = cmd2

\* C28: put_file(stream, path, overwrite) on an existing disk returns with
\* the stream written to path as its last command; the file was deleted
\* first if it existed and overwrite was true, and the parent directory was
\* created first if it did not exist.  This includes a file directly under
\* the root.
C28_PutFileWritesAfterDeleteAndMkdir ==
  (/\ session_call.op = "put_file"
   /\ ~IsDirectory(session_call.before, session_call.path)
   /\ ThroughDirectories(session_call.before, session_call.path)) =>
    LET q == session_call.path IN
    /\ session_call.raised = "none"
    /\ Issued("put_file") = <<q>>
    /\ raw_calls[Len(raw_calls)].cmd = "put_file"
    /\ q \in DOMAIN remote_fs
    /\ (session_call.flag /\ q \in DOMAIN session_call.before) <=> Issued("delete_file") = <<q>>
    /\ Issued("delete_file") # <<>> => IssuedBefore("delete_file", "put_file")
    /\ IsDirectory(remote_fs, Parent(q))
    /\ ~IsDirectory(session_call.before, Parent(q)) <=> Issued("make_dir") # <<>>

\* the prefix root/c1/../ck of a path
Prefix(parts, k) == SubSeq(parts, 1, k + 1)

C30_RootOnlyMakeDirRefused ==
  (session_call.op = "make_dir" /\ Len(Normal(session_call.path)) = 1) =>
    /\ session_call.raised # "none"
    /\ Issued("make_dir") = <<>>

\* ------------------------------------------------------------ C31..C40
\* C31: exists(path) on a path that ends with a separator inspects the last
\* named entry as a directory: it is true only when that entry is a
\* directory of its parent, and false when it is a regular file or absent.
C31_TrailingSeparatorMeansDirectory ==
  (/\ session_call.op = "exists"
   /\ EndsWithSeparator(session_call.path)
   /\ Len(Normal(session_call.path)) >= 2) =>
    /\ session_call.raised = "none"
    /\ session_call.flag <=> IsDirectory(session_call.before, Normal(session_call.path))

\* the commands the session issued for the plugin, in order
Commands == [i \in DOMAIN raw_calls |-> raw_calls[i].cmd]

\* C32: a run of the process_list plugin issues one session operation,
\* list_processes(), and no other (no file read, no process start), and
\* returns its rows unchanged, whatever files the machine holds.
C32_ProcessListIssuesOneOperation ==
  plugin_call.plugin = "process_list" =>
    /\ Commands = <<"list_processes">>
    /\ plugin_call.raised = "none"
    /\ plugin_call.data = ProcessRows(RunningProcesses)

\* an Executing job whose plugin raised what the last run raised
JobOfRun ==
  [LeetJob([host |-> "H1", backend |-> "B1"]) EXCEPT
     !.status = "EXECUTING", !.act = "handler", !.session = "closed", !.closes = 1,
     !.exc = [kind |-> plugin_call.raised, stop |-> FALSE, msg |-> plugin_call.msg]]

C33_WitnessRefused ==
  /\ plugin_call.plugin = "file_download"
  /\ plugin_call.source \in DOMAIN remote_fs
  /\ remote_fs[plugin_call.source].size = max_size + 1
  /\ plugin_call.raised = "LeetPluginError"

\* the coordinator takes from the queue a SEARCH_READY of a request that
\* the expiry timer made ready while a backend had not completed
HandlesExpiredSearch(r) ==
  /\ leet_state = "running"
  /\ queue # <<>>
  /\ Head(queue) = [code |-> "SEARCH_READY", value |-> r]
  /\ queue' = Tail(queue)
  /\ requests[r].expiry = "fired"
  /\ Cardinality(requests[r].completed_backends) < requests[r].backend_quantity

\* C34: when the expiry timer has made ready a request on which a backend
\* had not completed, handling its SEARCH_READY creates one Pending job
\* with an immediate online probe for each machine found so far, and the
\* coordinator goes on handling messages.
C34_ExpiredSearchCreatesJobs ==
  [][\A r \in DOMAIN requests :
       HandlesExpiredSearch(r) =>
         /\ leet_state' = "running"
         /\ jobs' = jobs \o NewJobs(requests[r].found_machines)]_vars

\* the SEARCH_READY messages of request r that wait in the queue
SearchReadyWaiting(r) == Count(queue, [code |-> "SEARCH_READY", value |-> r])

\* C35: SEARCH_READY is posted once per request: by the backend whose
\* registration completed the set, or by the expiry timer when the request
\* was not ready; a backend that finishes on a request that is already ready
\* posts nothing, so the queue never holds two SEARCH_READY of one request.
C35_SearchReadyPostedOnce ==
  \A r \in DOMAIN requests : SearchReadyWaiting(r) <= 1

\* the online probes of job j that are armed in _sched_machine
ArmedProbes(j) == IF jobs[j].act \in {"probe_now", "probe"} THEN 1 ELSE 0

\* the executions of job j that wait in a pool
QueuedExecutions(j) ==
  Cardinality({<<b, i>> \in Backends \X (1..MaxJobs * MaxAttempts) :
                 i \in DOMAIN pool_queue[b] /\ pool_queue[b][i] = j})

\* the workers that are inside _execute_plugin for job j
RunningExecutions(j) == IF jobs[j].act \in WorkerActs THEN 1 ELSE 0

JobDoneWaiting(j) == Count(queue, JobDone(j))

\* C37: no job is the subject of two JOB_DONE messages: no job is posted
\* twice, every JOB_DONE that waits is of a job still in the job table (so
\* _remove_job finds it), and no job is put on the out-queue twice.
C37_NoSecondJobDone ==
  \A j \in JobIds :
    /\ jobs[j].posted <= 1
    /\ JobDoneWaiting(j) <= 1
    /\ JobDoneWaiting(j) = 1 => InList(job_list, j)
    /\ JobDoneWaiting(j) + Published(j) = jobs[j].posted
    /\ Published(j) = 1 => ~InList(job_list, j)

\* a job was removed from the table and published, and its worker is gone
C37_Witness ==
  \E j \in JobIds :
    /\ Published(j) = 1
    /\ jobs[j].act = "idle"
    /\ ~InList(job_list, j)

\* job j is in the job table and nothing is left that will act on it
Abandoned(j) ==
  /\ InList(job_list, j)
  /\ ArmedProbes(j) + QueuedExecutions(j) + RunningExecutions(j) = 0
  /\ JobDoneWaiting(j) = 0

\* C38: however a worker's _execute_plugin call for a job ends, by return
\* or by any exception, the job is re-armed for an online probe or posted
\* as JOB_DONE: no job stays in the job table with no armed probe, no worker
\* and no JOB_DONE waiting.
C38_NoJobAbandoned ==
  \A j \in JobIds : ~Abandoned(j)

\* C39: a job that has been put on the out-queue has no open session: on
\* every path of _execute_plugin, the success path included, the session is
\* closed before the job's JOB_DONE is handled and the job published.
C39_SessionClosedBeforePublished ==
  \A j \in JobIds : Published(j) >= 1 => jobs[j].session # "open"

\* the tasks scheduled in _sched for the submitted job i
ScheduledFor(i) == {k \in DOMAIN _sched : _sched[k].leet_job = i}

\* C40: after add_tasks(tasks) of the multi-instance backend at most one
\* task is scheduled for each submitted job, whatever the instances found,
\* also when one hostname is found in two instances and another hostname of
\* the batch in none.
C40_OneTaskPerSubmittedJob ==
  \A i \in DOMAIN tasks : Cardinality(ScheduledFor(i)) <= 1

====
